---- MODULE Spec2Model ----
(***************************************************************************)
(* Bulk Excel import of the ECG credit union back office:                  *)
(*   ExcelUserImporter   (apps/users/utils/smart_importer.py)              *)
(*   MemberExcelImporter (apps/credit_union/services/import_service.py)    *)
(* and the two HTTP handlers that call them.                               *)
(*                                                                         *)
(* Text is modelled as a sequence of one-character strings, so that        *)
(* strip(), upper(), re.sub() and the f-string formatting are computed.    *)
(* The relational store is a record of sets of rows; the unique columns    *)
(* of the Django models are enforced by the Create operators, which raise  *)
(* as the database would.                                                  *)
(***************************************************************************)
EXTENDS Integers, Sequences, FiniteSets, TLC

(***************************************************************************)
(* Bounds of the model.                                                    *)
(***************************************************************************)
\* the longest upload that is explored (data rows of one file)
MaxRows == 2

(***************************************************************************)
(* Characters and strings.                                                 *)
(***************************************************************************)
LowerCase == <<"a","b","c","d","e","f","g","h","i","j","k","l","m",
               "n","o","p","q","r","s","t","u","v","w","x","y","z">>

UpperCase == <<"A","B","C","D","E","F","G","H","I","J","K","L","M",
               "N","O","P","Q","R","S","T","U","V","W","X","Y","Z">>

DigitChars == <<"0","1","2","3","4","5","6","7","8","9">>

Range(f) == {f[i] : i \in DOMAIN f}

IndexOf(seq, c) == CHOOSE i \in DOMAIN seq : seq[i] = c

\* str.isspace() for the characters of the model
IsSpace(c) == c = " "

\* [A-Za-z] of the regular expressions
IsAsciiLetter(c) == c \in Range(LowerCase) \cup Range(UpperCase)

\* str.upper() / str.lower() on one character
UpperChar(c) == IF c \in Range(LowerCase) THEN UpperCase[IndexOf(LowerCase, c)] ELSE c

LowerChar(c) == IF c \in Range(UpperCase) THEN LowerCase[IndexOf(UpperCase, c)] ELSE c

ToUpper(s) == [i \in DOMAIN s |-> UpperChar(s[i])]

ToLower(s) == [i \in DOMAIN s |-> LowerChar(s[i])]

RECURSIVE LStrip(_)
LStrip(s) == IF s # <<>> /\ IsSpace(Head(s)) THEN LStrip(Tail(s)) ELSE s

RECURSIVE RStrip(_)
RStrip(s) == IF s # <<>> /\ IsSpace(s[Len(s)]) THEN RStrip(SubSeq(s, 1, Len(s) - 1)) ELSE s

\* str.strip()
Strip(s) == RStrip(LStrip(s))

\* re.sub(r'\s+', ' ', s)
RECURSIVE CollapseSpaces(_)
CollapseSpaces(s) ==
    IF s = <<>> THEN <<>>
    ELSE IF IsSpace(Head(s))
         THEN <<" ">> \o CollapseSpaces(LStrip(s))
         ELSE <<Head(s)>> \o CollapseSpaces(Tail(s))

StartsWith(s, p) == Len(s) >= Len(p) /\ SubSeq(s, 1, Len(p)) = p

\* str.replace(pat, rep)
RECURSIVE Replace(_, _, _)
Replace(s, pat, rep) ==
    IF s = <<>> THEN <<>>
    ELSE IF StartsWith(s, pat)
         THEN rep \o Replace(SubSeq(s, Len(pat) + 1, Len(s)), pat, rep)
         ELSE <<Head(s)>> \o Replace(Tail(s), pat, rep)

\* re.sub(r'[^A-Za-z]', '', s)
LettersOnly(s) == SelectSeq(s, IsAsciiLetter)

\* str.ljust(n, fill)
RECURSIVE LJust(_, _, _)
\* variant: no padding
NoPad(s, n, fill) == s

LJust(s, n, fill) == IF Len(s) >= n THEN s ELSE LJust(s \o <<fill>>, n, fill)

\* decimal digits of a natural number, as str(n) writes them
RECURSIVE Decimal(_)
Decimal(n) == IF n < 10 THEN <<DigitChars[n + 1]>>
              ELSE Decimal(n \div 10) \o <<DigitChars[(n % 10) + 1]>>

\* f"{n:02d}": zero-padded on the left to a width of at least two
RECURSIVE ZFill(_, _)
ZFill(s, width) == IF Len(s) >= width THEN s ELSE ZFill(<<"0">> \o s, width)

\* the width in the format specification {counter:02d}
SuffixWidth == 2

\* the code length of clean_name[:3] and code.ljust(3, 'X')
CodeLen == 3

\* variant: the counter without zero padding
FormatPlain(n) == Decimal(n)

Format02d(n) == ZFill(Decimal(n), SuffixWidth)

(***************************************************************************)
(* Cells of the sheet as pandas hands them over.                           *)
(***************************************************************************)
NaN == [t |-> "nan"]

Text(s) == [t |-> "str", v |-> s]

\* a numeric cell (float64), given in tenths: Num(27) is 2.7
Num(tenths) == [t |-> "num", tenths |-> tenths]

\* pd.notna(value)
NotNa(cell) == cell.t # "nan"

\* Python's None
None == [t |-> "none"]

\* str(value) of a text cell
PyStr(cell) == cell.v

(***************************************************************************)
(* String cleaning of the two importers.                                   *)
(***************************************************************************)
Amp == <<"&","n","b","s","p",";">>

Nbsp == <<"n","b","s","p">>

\* ExcelUserImporter._clean_string: strip, collapse white space, drop nbsp
UserCleanString(s) == Replace(Replace(CollapseSpaces(Strip(s)), Amp, <<" ">>), Nbsp, <<" ">>)

\* MemberExcelImporter._clean_string: strip only
\* variant: the text is kept as it stands
KeepString(s) == s

MemberCleanString(s) == Strip(s)

(***************************************************************************)
(* Ordering of codes (Meta.ordering = ['code']) for QuerySet.first().      *)
(***************************************************************************)
AllChars == DigitChars \o UpperCase \o LowerCase

CharRank(c) == IF c \in Range(AllChars) THEN IndexOf(AllChars, c) ELSE 0

RECURSIVE SeqLess(_, _)
SeqLess(a, b) ==
    IF b = <<>> THEN FALSE
    ELSE IF a = <<>> THEN TRUE
    ELSE IF CharRank(Head(a)) # CharRank(Head(b)) THEN CharRank(Head(a)) < CharRank(Head(b))
    ELSE SeqLess(Tail(a), Tail(b))

\* QuerySet.first() of a set of stations or divisions, ordered by code
FirstByCode(ents) == CHOOSE e \in ents : \A o \in ents : o = e \/ SeqLess(e.code, o.code)

(***************************************************************************)
(* The relational store.  A user is identified by staff_id (unique), a     *)
(* station or division by its code (unique); member, wallet, savings       *)
(* account and account metadata rows carry the staff_id of their user.     *)
(***************************************************************************)
EmptyStore == [users |-> {}, metas |-> {}, members |-> {}, wallets |-> {},
               savings |-> {}, stations |-> {}, divisions |-> {}]

StationCodes(st) == {e.code : e \in st.stations}

DivisionCodes(st) == {e.code : e \in st.divisions}

\* variant: the name is matched letter for letter
StationsNamedExactly(st, name) == {e \in st.stations : e.name = name}

\* Station.objects.filter(name__iexact=name)
StationsNamed(st, name) == {e \in st.stations : ToUpper(e.name) = ToUpper(name)}

\* Division.objects.filter(name__iexact=name)
DivisionsNamed(st, name) == {e \in st.divisions : ToUpper(e.name) = ToUpper(name)}

\* User.objects.filter(staff_id=staff_id)
UsersWithStaff(st, staff_id) == {u \in st.users : u.staff_id = staff_id}

\* User.objects.filter(email=email)
UsersWithEmail(st, email) == {u \in st.users : u.email = email}

(***************************************************************************)
(* Code generation of get-or-create.                                       *)
(***************************************************************************)
DefaultStationCode == <<"S","T","N">>

DefaultDivisionCode == <<"D","I","V">>

Min(a, b) == IF a < b THEN a ELSE b

\* clean_name = re.sub(r'[^A-Za-z]', '', name.upper());
\* code = clean_name[:3] if clean_name else default; code.ljust(3, 'X')
BaseCode(name, default) ==
    LET clean_name == LettersOnly(ToUpper(name))
        code == IF clean_name # <<>>
                THEN SubSeq(clean_name, 1, Min(CodeLen, Len(clean_name)))
                ELSE default
    IN IF Len(code) < CodeLen THEN LJust(code, CodeLen, "X") ELSE code

\* while objects.filter(code=code).exists():
\*     code = f"{original_code}{counter:02d}"; counter += 1
RECURSIVE ProbeCode(_, _, _, _)
ProbeCode(original_code, code, counter, used) ==
    IF code \in used
    THEN ProbeCode(original_code, original_code \o Format02d(counter), counter + 1, used)
    ELSE code

\* variant: the probe starts at the first suffixed candidate
SuffixedCode(name, default, used) ==
    CHOOSE code \in {ProbeCode(original_code, original_code \o Format02d(1), 2, used)
                     : original_code \in {BaseCode(name, default)}} : TRUE

UniqueCode(name, default, used) ==
    CHOOSE code \in {ProbeCode(original_code, original_code, 1, used)
                     : original_code \in {BaseCode(name, default)}} : TRUE

\* Station.save / Division.save: self.code = self.code.upper().strip()
SavedCode(code) == Strip(ToUpper(code))

(***************************************************************************)
(* Headers of the sheet and cell access.                                   *)
(***************************************************************************)
HStaff == <<"S","t","a","f","f"," ","#">>

HName == <<"N","a","m","e">>

HEmail == <<"E","m","a","i","l">>

HStation == <<"S","t","a","t","i","o","n">>

HDivision == <<"D","i","v","i","s","i","o","n">>

HDirectorate == <<"D","i","r","e","c","t","o","r","a","t","e">>

HDependents == <<"#"," ","o","f"," ","D","e","p","e","n","d","e","n","t","s">>

HSex == <<"S","e","x">>

HMarital == <<"M","a","r","i","t","a","l"," ","S","t","a","t","u","s">>

\* header_mapping[str(col).strip()] = col, for col in df.columns (a later
\* column with the same stripped label replaces an earlier one)
HeaderMapping(columns) ==
    [h \in {Strip(columns[i]) : i \in DOMAIN columns} |->
        CHOOSE i \in DOMAIN columns :
            /\ Strip(columns[i]) = h
            /\ \A j \in DOMAIN columns : Strip(columns[j]) = h => j <= i]

\* missing_headers = [h for h in required_headers if h not in header_mapping]
\* variant: no header is reported missing
MissingHeadersNone(required, header_mapping) == {}

MissingHeaders(required, header_mapping) == {h \in required : h \notin DOMAIN header_mapping}

UserRequiredHeaders == {HStaff, HName}

MemberRequiredHeaders == {HStaff}

\* get_value / _get_value: the cell under the header, or the default when the
\* header is absent or the cell is NaN
GetValue(row, header_mapping, header, default) ==
    IF header \in DOMAIN header_mapping
    THEN LET value == row[header_mapping[header]]
         IN IF NotNa(value) THEN value ELSE default
    ELSE default

(***************************************************************************)
(* E-mail checks.                                                          *)
(***************************************************************************)
\* email.split('@')[-1]
RECURSIVE AfterLastAt(_)
AfterLastAt(s) ==
    IF \E i \in DOMAIN s : s[i] = "@"
    THEN AfterLastAt(SubSeq(s, (CHOOSE i \in DOMAIN s : s[i] = "@") + 1, Len(s)))
    ELSE s

\* variant: every non-empty text passes as an email address
EmailFormatAny(email) == TRUE

\* '@' in email and '.' in email.split('@')[-1]
EmailFormatOk(email) == /\ "@" \in Range(email)
                        /\ "." \in Range(AfterLastAt(email))

\* BaseUserManager.normalize_email: the domain part is lower-cased
NormalizeEmail(email) ==
    LET domain == AfterLastAt(email)
        local == SubSeq(email, 1, Len(email) - Len(domain))
    IN local \o ToLower(domain)

(***************************************************************************)
(* Writes inside "with transaction.atomic():".                             *)
(*                                                                         *)
(* Both importers run the whole row loop inside one atomic block.  A       *)
(* context c is the connection inside that block: c.tx is the store as the *)
(* open transaction sees it, c.broken is Django's needs_rollback flag.     *)
(* Model.save() (and so objects.create / create_user) that raises inside   *)
(* an atomic block marks the connection for rollback; from then on every   *)
(* query raises TransactionManagementError until the block is left, and    *)
(* leaving the block rolls the transaction back instead of committing it.  *)
(***************************************************************************)
\* a query (filter/get/exists/first) raises once the transaction is broken
QueryRaises(c) == c.broken

\* Model.save() of the write named what: raises when the database refuses
\* the row (the injected fault, or a violated unique column) or when the
\* transaction is already broken; a raise marks the transaction broken.
\* c.raised collects the writes the database itself refused.
SaveRow(c, what, fault, violates, newtx) ==
    IF c.broken
    THEN [ok |-> FALSE, c |-> c]
    ELSE IF fault = what \/ violates
    THEN [ok |-> FALSE, c |-> [tx |-> c.tx, broken |-> TRUE, raised |-> c.raised \cup {what}]]
    ELSE [ok |-> TRUE, c |-> [tx |-> newtx, broken |-> FALSE, raised |-> c.raised]]

\* leaving the outermost atomic block: commit, or roll back when the
\* transaction was marked broken
\* variant: the block commits whatever happened inside it
AlwaysCommit(committed, c) == c.tx

AtomicExit(committed, c) == IF c.broken THEN committed ELSE c.tx

(***************************************************************************)
(* Get-or-create of stations and divisions.  The result is                 *)
(*   [c, ok, ent, created]: ok = FALSE is the "except Exception" branch    *)
(*   (return None / return None, False).                                   *)
(*                                                                         *)
(* Intermediate results are bound with x \in {e}, so that each statement   *)
(* of the code is evaluated once, in the order of the code.                *)
(***************************************************************************)
Only(S) == CHOOSE x \in S : TRUE

GocFailed(c) == [c |-> c, ok |-> FALSE, ent |-> None, created |-> FALSE]

\* Station.objects.create(code=code, name=station_name, is_active=True)
CreateStation(c, code, name, fault) ==
    SaveRow(c, "station", fault, SavedCode(code) \in StationCodes(c.tx),
            [c.tx EXCEPT !.stations = @ \cup {[code |-> SavedCode(code), name |-> name]}])

\* Division.objects.create(code=code, name=division_name, directorate=..., is_active=True)
CreateDivision(c, code, name, directorate, fault) ==
    SaveRow(c, "division", fault, SavedCode(code) \in DivisionCodes(c.tx),
            [c.tx EXCEPT !.divisions = @ \cup {[code |-> SavedCode(code), name |-> name,
                                                directorate |-> directorate]}])

\* _get_or_create_station of both importers (try ... except Exception)
GetOrCreateStation(c, station_name, fault) ==
    IF QueryRaises(c) THEN GocFailed(c)
    ELSE Only({
        IF found # {}
        THEN [c |-> c, ok |-> TRUE, ent |-> FirstByCode(found), created |-> FALSE]
        ELSE Only({
            Only({
                IF w.ok
                THEN [c |-> w.c, ok |-> TRUE,
                      ent |-> [code |-> SavedCode(code), name |-> station_name],
                      created |-> TRUE]
                ELSE GocFailed(w.c)
            : w \in {CreateStation(c, code, station_name, fault)}})
        : code \in {UniqueCode(station_name, DefaultStationCode, StationCodes(c.tx))}})
    : found \in {StationsNamed(c.tx, station_name)}})

\* _get_or_create_division of both importers (try ... except Exception)
GetOrCreateDivision(c, division_name, directorate, fault) ==
    IF QueryRaises(c) THEN GocFailed(c)
    ELSE Only({
        IF found # {}
        THEN [c |-> c, ok |-> TRUE, ent |-> FirstByCode(found), created |-> FALSE]
        ELSE Only({
            Only({
                IF w.ok
                THEN [c |-> w.c, ok |-> TRUE,
                      ent |-> [code |-> SavedCode(code), name |-> division_name,
                               directorate |-> directorate],
                      created |-> TRUE]
                ELSE GocFailed(w.c)
            : w \in {CreateDivision(c, code, division_name, directorate, fault)}})
        : code \in {UniqueCode(division_name, DefaultDivisionCode, DivisionCodes(c.tx))}})
    : found \in {DivisionsNamed(c.tx, division_name)}})

(***************************************************************************)
(* Results of processing one row.  status "raised" stands for an exception *)
(* that leaves _process_row_exact_headers / _process_member_row.           *)
(***************************************************************************)
RowResult(c, status) ==
    [c |-> c, status |-> status, error |-> "", field_errors |-> {}, reason |-> "",
     warnings |-> <<>>, staff_id |-> <<>>, email |-> None,
     station_name |-> None, station_created |-> FALSE,
     division_name |-> None, division_created |-> FALSE,
     station_goc |-> "not_called", division_goc |-> "not_called"]

\* how a get-or-create call ended: "not_called", "found", "created", "failed"
GocOutcome(g) == IF ~g.called THEN "not_called"
                 ELSE IF ~g.ok THEN "failed"
                 ELSE IF g.created THEN "created" ELSE "found"

WithGoc(r, station, division) ==
    [r EXCEPT !.station_goc = GocOutcome(station), !.division_goc = GocOutcome(division)]

RowFailed(c, error, field_errors) ==
    [RowResult(c, "failed") EXCEPT !.error = error, !.field_errors = field_errors]

RowSkipped(c, reason) == [RowResult(c, "skipped") EXCEPT !.reason = reason]

RowRaised(c) == RowResult(c, "raised")

\* get-or-create was not called for this row
NotCalled(c) == [c |-> c, ok |-> FALSE, ent |-> None, created |-> FALSE, called |-> FALSE]

Called(g) == [c |-> g.c, ok |-> g.ok, ent |-> g.ent, created |-> g.created, called |-> TRUE]

\* a reference to a station or division row, or None
Ref(g) == IF g.ok THEN Text(g.ent.code) ELSE None

(***************************************************************************)
(* int(float(value)) of the "# of Dependents" cell.                        *)
(***************************************************************************)
Infinities == {<<"i","n","f">>, <<"i","n","f","i","n","i","t","y">>}

IsDigits(s) == s # <<>> /\ \A i \in DOMAIN s : s[i] \in Range(DigitChars)

RECURSIVE DigitsValue(_)
DigitsValue(s) == IF s = <<>> THEN 0
                  ELSE 10 * DigitsValue(SubSeq(s, 1, Len(s) - 1)) + (IndexOf(DigitChars, s[Len(s)]) - 1)

\* int(x) of a finite float given in tenths: truncation towards zero
IntTrunc(tenths) == IF tenths >= 0 THEN tenths \div 10 ELSE 0 - ((0 - tenths) \div 10)

\* the text is digits, optionally followed by a point and further digits
IsDecimal(s) ==
    \/ IsDigits(s)
    \/ \E i \in DOMAIN s :
          /\ s[i] = "."
          /\ IsDigits(SubSeq(s, 1, i - 1))
          /\ \A j \in (i + 1)..Len(s) : s[j] \in Range(DigitChars)

\* the digits before the point
WholePart(s) ==
    IF "." \in Range(s) THEN SubSeq(s, 1, (CHOOSE i \in DOMAIN s : s[i] = ".") - 1) ELSE s

\* kind "ok": the integer; "value_error": float() raised ValueError;
\* "overflow": int() of an infinite float raised OverflowError
IntOfFloat(cell) ==
    IF cell.t = "num" THEN [kind |-> "ok", v |-> IntTrunc(cell.tenths)]
    ELSE Only({ Only({
        IF ToLower(body) \in Infinities THEN [kind |-> "overflow", v |-> 0]
        ELSE IF IsDecimal(body)
             THEN [kind |-> "ok",
                   v |-> IF Head(s) = "-" THEN 0 - DigitsValue(WholePart(body))
                         ELSE DigitsValue(WholePart(body))]
             ELSE [kind |-> "value_error", v |-> 0]
      : body \in {IF s # <<>> /\ Head(s) \in {"-", "+"} THEN Tail(s) ELSE s}})
      : s \in {Strip(cell.v)}})

\* variant: no lower limit
NoClamp(a, b) == b

Max(a, b) == IF a > b THEN a ELSE b

(***************************************************************************)
(* _parse_gender and _parse_marital_status.                                *)
(***************************************************************************)
MaleSpellings == {<<"M">>, <<"M","A","L","E">>, <<"B","O","Y">>}

FemaleSpellings == {<<"F">>, <<"F","E","M","A","L","E">>, <<"G","I","R","L">>, <<"W","O","M","A","N">>}

\* value.upper().strip() looked up in the lists; every other value is OTHER
ParseGender(value) ==
    Only({IF value_clean \in MaleSpellings THEN "MALE"
          ELSE IF value_clean \in FemaleSpellings THEN "FEMALE"
          ELSE "OTHER"
    : value_clean \in {Strip(ToUpper(value))}})

\* status_map of _parse_marital_status
StatusMap ==
    [k \in {<<"S","I","N","G","L","E">>, <<"M","A","R","R","I","E","D">>, <<"D","I","V","O","R","C","E","D">>, <<"W","I","D","O","W","E","D">>, <<"S","E","P","A","R","A","T","E","D">>, <<"S">>, <<"M">>, <<"D">>, <<"W">>, <<"A">>} |->
        IF k \in {<<"S","I","N","G","L","E">>, <<"S">>, <<"A">>} THEN "SINGLE"
        ELSE IF k \in {<<"M","A","R","R","I","E","D">>, <<"M">>} THEN "MARRIED"
        ELSE IF k \in {<<"D","I","V","O","R","C","E","D">>, <<"D">>} THEN "DIVORCED"
        ELSE IF k \in {<<"W","I","D","O","W","E","D">>, <<"W">>} THEN "WIDOWED"
        ELSE "SEPARATED"]

\* status_map.get(value.upper().strip(), User.MaritalStatus.SINGLE)
ParseMaritalStatus(value) ==
    Only({IF value_clean \in DOMAIN StatusMap THEN StatusMap[value_clean] ELSE "SINGLE"
    : value_clean \in {Strip(ToUpper(value))}})

(***************************************************************************)
(* ExcelUserImporter._process_row_exact_headers                            *)
(***************************************************************************)
\* the Email cell: [email, warnings]; the transaction is not broken here
UserEmail(c, row, header_mapping) ==
    Only({
        IF email_raw = None THEN [email |-> None, warnings |-> <<>>]
        ELSE Only({
            IF email # <<>> /\ EmailFormatOk(email)
            THEN IF UsersWithEmail(c.tx, Text(email)) # {}
                 THEN [email |-> None, warnings |-> <<"email_exists">>]
                 ELSE [email |-> Text(email), warnings |-> <<>>]
            ELSE [email |-> None,
                  warnings |-> IF email # <<>> THEN <<"invalid_email">> ELSE <<>>]
        : email \in {UserCleanString(PyStr(email_raw))}})
    : email_raw \in {GetValue(row, header_mapping, HEmail, None)}})

\* the user row that User(...) / create_user(...) saves
NewUser(staff_number, email, station, division, directorate, dependents, gender, marital_status) ==
    [staff_id |-> staff_number, gender |-> gender, marital_status |-> marital_status,
     email |-> IF email = None THEN None ELSE Text(NormalizeEmail(email.v)),
     station |-> Ref(station), division |-> Ref(division),
     directorate |-> directorate, dependents |-> dependents]

\* user.save() of the new user: staff_id and email are unique columns
SaveNewUser(c, fault, user) ==
    SaveRow(c, "user", fault,
            \/ UsersWithStaff(c.tx, user.staff_id) # {}
            \/ (user.email # None /\ UsersWithEmail(c.tx, user.email) # {}),
            [c.tx EXCEPT !.users = @ \cup {user}])

\* UserAccountMeta.objects.create(user=user)
CreateMeta(c, fault, staff_number) ==
    SaveRow(c, "meta", fault, staff_number \in c.tx.metas,
            [c.tx EXCEPT !.metas = @ \cup {staff_number}])

\* try: User(...).save() / User.objects.create_user(...);
\*      UserAccountMeta.objects.create(user=user)
\* except Exception: failed, field_errors {'database': ...}
UserCreate(c, fault, user, station, division, warnings, names) ==
    Only({
        IF ~w1.ok THEN RowFailed(w1.c, "Database error", {"database"})
        ELSE Only({
            IF ~w2.ok THEN RowFailed(w2.c, "Database error", {"database"})
            ELSE [RowResult(w2.c, "success") EXCEPT
                     !.staff_id = user.staff_id, !.email = user.email,
                     !.warnings = warnings,
                     !.station_name = names.station, !.station_created = station.created,
                     !.division_name = names.division,
                     !.division_created = division.created]
        : w2 \in {CreateMeta(w1.c, fault, user.staff_id)}})
    : w1 \in {SaveNewUser(c, fault, user)}})

\* the Station cell
UserStation(c, station_name, fault) ==
    IF station_name # None /\ station_name.v # <<>>
    THEN Called(GetOrCreateStation(c, station_name.v, fault))
    ELSE NotCalled(c)

\* the Division cell
UserDivision(c, division_name, directorate, fault) ==
    IF division_name # None /\ division_name.v # <<>>
    THEN Called(GetOrCreateDivision(c, division_name.v, directorate, fault))
    ELSE NotCalled(c)

GocWarnings(g, made, not_made) ==
    IF g.created THEN <<made>>
    ELSE IF g.called /\ ~g.ok THEN <<not_made>>
    ELSE <<>>

\* the cell under the header, cleaned; None when the cell is missing
UserCleanCell(row, header_mapping, header) ==
    Only({IF raw = None THEN None ELSE Text(UserCleanString(PyStr(raw)))
          : raw \in {GetValue(row, header_mapping, header, None)}})

\* the Sex cell: data['gender'], the default of the column when it is not set
UserGender(row, header_mapping) ==
    Only({IF sex = None \/ sex.v = <<>> THEN "OTHER" ELSE ParseGender(sex.v)
          : sex \in {UserCleanCell(row, header_mapping, HSex)}})

\* the Marital Status cell: [marital_status, warnings]
\* if parsed_marital: data['marital_status'] = parsed_marital
\* else: warnings.append('Invalid marital status ...')
UserMarital(row, header_mapping) ==
    Only({
        IF marital = None \/ marital.v = <<>>
        THEN [marital_status |-> "SINGLE", warnings |-> <<>>]
        ELSE Only({
            IF parsed_marital # ""
            THEN [marital_status |-> parsed_marital, warnings |-> <<>>]
            ELSE [marital_status |-> "SINGLE", warnings |-> <<"invalid_marital_status">>]
        : parsed_marital \in {ParseMaritalStatus(marital.v)}})
    : marital \in {UserCleanCell(row, header_mapping, HMarital)}})

\* the "# of Dependents" cell: int(float(...)), 0 when the cell is missing
UserDependents(row, header_mapping) ==
    Only({IF raw = None THEN [kind |-> "ok", v |-> 0] ELSE IntOfFloat(raw)
          : raw \in {GetValue(row, header_mapping, HDependents, None)}})

\* the optional cells, get-or-create of station and division, then the create
UserResolve(c, row, header_mapping, fault, staff_number) ==
    Only({ Only({ Only({
        WithGoc(
            IF parsed.kind = "overflow" THEN RowRaised(division.c)
            ELSE UserCreate(division.c, fault,
                     NewUser(staff_number, e.email, station, division,
                             IF directorate = None THEN <<>> ELSE directorate.v,
                             IF parsed.kind = "ok" THEN Max(0, parsed.v) ELSE 0,
                             UserGender(row, header_mapping), m.marital_status),
                     station, division,
                     e.warnings
                        \o GocWarnings(station, "station_created", "station_not_created")
                        \o GocWarnings(division, "division_created", "division_not_created")
                        \o m.warnings
                        \o (IF parsed.kind = "value_error" THEN <<"invalid_dependents">>
                            ELSE <<>>)
                        \o <<"role_default">>,
                     [station |-> station_name, division |-> division_name]),
            station, division)
      : division \in {UserDivision(station.c, division_name,
                                   IF directorate = None THEN <<>> ELSE directorate.v,
                                   fault)}})
      : station \in {UserStation(c, station_name, fault)}})
      : e \in {UserEmail(c, row, header_mapping)},
        station_name \in {UserCleanCell(row, header_mapping, HStation)},
        directorate \in {UserCleanCell(row, header_mapping, HDirectorate)},
        division_name \in {UserCleanCell(row, header_mapping, HDivision)},
        m \in {UserMarital(row, header_mapping)},
        parsed \in {UserDependents(row, header_mapping)}})

\* variant: the station is resolved before the checks on the row
UserStationFirst(c, row, header_mapping, fault) ==
    Only({
        IF UserCleanCell(row, header_mapping, HStaff) \in {None, Text(<<>>)}
        THEN RowFailed(station.c, "Staff # is required", {"Staff #"})
        ELSE RowSkipped(station.c, "already exists")
    : station \in {UserStation(c, UserCleanCell(row, header_mapping, HStation), fault)}})

UserProcessRow(c, row, header_mapping, fault) ==
    Only({
        IF staff_number = None
        THEN RowFailed(c, "Staff # is required", {"Staff #"})
        ELSE IF staff_number.v = <<>>
        THEN RowFailed(c, "Staff # is empty", {"Staff #"})
        ELSE IF QueryRaises(c)
        THEN RowRaised(c)
        ELSE IF UsersWithStaff(c.tx, staff_number.v) # {}
        THEN RowSkipped(c, "already exists")
        ELSE IF name = None
        THEN RowFailed(c, "Name is required", {"Name"})
        ELSE IF name.v = <<>>
        THEN RowFailed(c, "Name is empty", {"Name"})
        ELSE UserResolve(c, row, header_mapping, fault, staff_number.v)
    : staff_number \in {UserCleanCell(row, header_mapping, HStaff)},
      name \in {UserCleanCell(row, header_mapping, HName)}})

(***************************************************************************)
(* MemberExcelImporter._process_member_row                                 *)
(***************************************************************************)
\* timezone.now().strftime('%y%m') of the import
YearMonth == <<"2","6","1","1">>

\* cheche_number = f"CH{user.staff_id}{timezone.now().strftime('%y%m')}"
ChecheNumber(staff_id) == <<"C","H">> \o staff_id \o YearMonth

\* cls._clean_string(str(cls._get_value(row, header_mapping, header, '')))
MemberCleanCell(row, header_mapping, header) ==
    MemberCleanString(PyStr(GetValue(row, header_mapping, header, Text(<<>>))))

\* step 6, the Email cell: [raised, email, warnings] for the user being updated
MemberEmail(c, row, header_mapping, user) ==
    Only({
        IF email = <<>> THEN [raised |-> FALSE, email |-> user.email, warnings |-> <<>>]
        ELSE IF EmailFormatOk(email)
             THEN IF QueryRaises(c)
                  THEN [raised |-> TRUE, email |-> user.email, warnings |-> <<>>]
                  ELSE IF UsersWithEmail(c.tx, Text(email)) \ {user} # {}
                       THEN [raised |-> FALSE, email |-> user.email,
                             warnings |-> <<"email_exists">>]
                       ELSE [raised |-> FALSE, email |-> Text(email),
                             warnings |-> <<"email_updated">>]
             ELSE [raised |-> FALSE, email |-> user.email, warnings |-> <<"invalid_email">>]
    : email \in {MemberCleanCell(row, header_mapping, HEmail)}})

\* step 7, user.save(): outside every try block of the row
MemberSaveUser(c, fault, user, updated) ==
    SaveRow(c, "user_update", fault,
            updated.email # None /\ UsersWithEmail(c.tx, updated.email) \ {user} # {},
            [c.tx EXCEPT !.users = (@ \ {user}) \cup {updated}])

\* Member.objects.create(user=user, ...)
CreateMember(c, fault, staff_id) ==
    SaveRow(c, "member", fault, staff_id \in c.tx.members,
            [c.tx EXCEPT !.members = @ \cup {staff_id}])

\* Wallet.objects.create(member=member, balance=0, cheche_number=cheche_number)
CreateWallet(c, fault, staff_id) ==
    SaveRow(c, "wallet", fault,
            ChecheNumber(staff_id) \in {w.cheche_number : w \in c.tx.wallets},
            [c.tx EXCEPT !.wallets =
                @ \cup {[member |-> staff_id, cheche_number |-> ChecheNumber(staff_id)]}])

\* SavingsAccount.objects.create(member=member, balance=0, ...)
CreateSavings(c, fault, staff_id) ==
    SaveRow(c, "savings", fault, FALSE, [c.tx EXCEPT !.savings = @ \cup {staff_id}])

\* steps 8-10: try: Member, Wallet, SavingsAccount create
\* except Exception: failed, field_errors {'database': ...}
MemberCreate(c, fault, staff_id) ==
    Only({
        IF ~w1.ok THEN w1
        ELSE Only({
            IF ~w2.ok THEN w2 ELSE CreateSavings(w2.c, fault, staff_id)
        : w2 \in {CreateWallet(w1.c, fault, staff_id)}})
    : w1 \in {CreateMember(c, fault, staff_id)}})

\* the Station cell (step 4)
MemberStation(c, station_name, fault) ==
    IF station_name # <<>>
    THEN Called(GetOrCreateStation(c, station_name, fault))
    ELSE NotCalled(c)

\* the Division cell (step 5)
MemberDivision(c, division_name, directorate, fault) ==
    IF division_name # <<>>
    THEN Called(GetOrCreateDivision(c, division_name, directorate, fault))
    ELSE NotCalled(c)

\* user.station = station; user.division = division;
\* user.directorate = division.directorate; user.email = email
UpdatedUser(user, station, division, email) ==
    [user EXCEPT !.station = IF station.ok THEN Ref(station) ELSE @,
                 !.division = IF division.ok THEN Ref(division) ELSE @,
                 !.directorate = IF division.ok THEN division.ent.directorate ELSE @,
                 !.email = email]

MemberWarnings(station, division, e) ==
    (IF station.created THEN <<"station_created">> ELSE <<>>)
    \o (IF station.ok THEN <<"station_updated">> ELSE <<>>)
    \o (IF division.created THEN <<"division_created">> ELSE <<>>)
    \o (IF division.ok THEN <<"division_updated">> ELSE <<>>)
    \o e.warnings \o <<"joined_date_default">>

\* steps 7-10 and the result of the row
MemberFinish(c, fault, user, updated, station, division, warnings, names) ==
    Only({
        IF ~saved.ok THEN RowRaised(saved.c)
        ELSE Only({
            IF ~made.ok THEN RowFailed(made.c, "Database error", {"database"})
            ELSE [RowResult(made.c, "success") EXCEPT
                     !.staff_id = user.staff_id, !.email = updated.email,
                     !.warnings = warnings,
                     !.station_name = Text(names.station),
                     !.station_created = station.created,
                     !.division_name = Text(names.division),
                     !.division_created = division.created]
        : made \in {MemberCreate(saved.c, fault, user.staff_id)}})
    : saved \in {MemberSaveUser(c, fault, user, updated)}})

\* steps 4-10 for the user found by staff_id
MemberResolve(c, row, header_mapping, fault, user) ==
    Only({ Only({ Only({ Only({
        WithGoc(
            IF e.raised THEN RowRaised(division.c)
            ELSE MemberFinish(division.c, fault, user,
                              UpdatedUser(user, station, division, e.email),
                              station, division, MemberWarnings(station, division, e),
                              [station |-> station_name, division |-> division_name]),
            station, division)
      : e \in {MemberEmail(division.c, row, header_mapping, user)}})
      : division \in {MemberDivision(station.c, division_name, directorate, fault)}})
      : station \in {MemberStation(c, station_name, fault)}})
      : station_name \in {MemberCleanCell(row, header_mapping, HStation)},
        division_name \in {MemberCleanCell(row, header_mapping, HDivision)},
        directorate \in {MemberCleanCell(row, header_mapping, HDirectorate)}})

MemberProcessRow(c, row, header_mapping, fault) ==
    Only({
        IF staff_id_raw = None
        THEN RowFailed(c, "Staff # is required", {"Staff #"})
        ELSE Only({
            IF staff_id = <<>>
            THEN RowFailed(c, "Staff # is empty", {"Staff #"})
            ELSE IF QueryRaises(c)
            THEN RowRaised(c)
            ELSE IF UsersWithStaff(c.tx, staff_id) = {}
            THEN RowSkipped(c, "not found")
            ELSE IF staff_id \in c.tx.members
            THEN RowSkipped(c, "already a member")
            ELSE Only({MemberResolve(c, row, header_mapping, fault, user)
                       : user \in {CHOOSE u \in UsersWithStaff(c.tx, staff_id) : TRUE}})
        : staff_id \in {MemberCleanString(PyStr(staff_id_raw))}})
    : staff_id_raw \in {GetValue(row, header_mapping, HStaff, None)}})

(***************************************************************************)
(* Inputs: the uploads that are explored.                                  *)
(***************************************************************************)
\* column labels as they stand in the sheet (Staff #, Name, Email, Station,
\* Division, Directorate, # of Dependents, Sex, Marital Status), with variants
StdColumns == <<HStaff, HName, HEmail, HStation, HDivision, HDirectorate, HDependents,
                HSex, HMarital>>

PaddedColumns == [StdColumns EXCEPT ![1] = <<" ">> \o HStaff \o <<" ">>,
                                    ![2] = HName \o <<" ">>]

NoStaffColumns == [StdColumns EXCEPT ![1] = <<"S","t","a","f","f"," ","N","o">>]

NoNameColumns == [StdColumns EXCEPT ![2] = <<"F","u","l","l"," ","N","a","m","e">>]

ColumnVariants == {StdColumns, PaddedColumns, NoStaffColumns, NoNameColumns}

\* data rows: one cell per column
RowA == <<Text(<<"S","1">>), Text(<<"A","l">>), Text(<<"a","@","x",".","i","o">>), Text(<<"A","c","c","r","a"," ","B","r","a","n","c","h">>), Text(<<"O","p","s">>), Text(<<"T","e","c","h">>), Num(0 - 15), Text(<<"m">>), Text(<<"M","a","r","r","i","e","d">>)>>

RowB == <<Text(<<" ","S","1"," ">>), Text(<<"B","o">>), Text(<<"b","a","d">>), Text(<<"A","C","C","R","A"," ","B","R","A","N","C","H">>), NaN, NaN, Text(<<"x">>), Text(<<"M","/","F">>), NaN>>

RowC == <<Text(<<"S","3">>), Text(<<"C","y">>), Text(<<"a","@","X",".","i","o">>), Text(<<"A","c","c","e","s","s"," ","P","o","i","n","t">>), NaN, NaN, Num(27), Text(<<"x">>), Text(<<"w","e","d">>)>>

RowD == <<NaN, Text(<<"D","i">>), NaN, Text(<<"A","c","c","e","s","s"," ","P","o","i","n","t">>), NaN, NaN, NaN, NaN, NaN>>

RowE == <<Text(<<" "," ">>), Text(<<"E","d">>), Text(<<"b","a","d">>), NaN, Text(<<"9">>), NaN, NaN, NaN, NaN>>

RowF == <<Text(<<"S","2">>), NaN, NaN, Text(<<"7">>), NaN, NaN, NaN, NaN, NaN>>

RowG == <<Text(<<"S","2">>), Text(<<"F","y">>), Text(<<"a","@","x",".","i","o">>), Text(<<"A","b">>), Text(<<"o","p","s">>), NaN, Text(<<"i","n","f">>), NaN, Text(<<"w">>)>>

RowH == <<Text(<<"S","4">>), Text(<<"H","u">>), Text(<<"h","@","x">>), Text(<<"a","c","c","r","a"," ","b","r","a","n","c","h">>), Text(<<"O","P","S">>), NaN, NaN, Text(<<" ","g","i","r","l"," ">>), Text(<<"a">>)>>

Rows == {RowA, RowB, RowC, RowD, RowE, RowF, RowG, RowH}

RECURSIVE SeqsUpTo(_, _)
SeqsUpTo(S, n) == IF n = 0 THEN {<<>>}
                  ELSE LET shorter == SeqsUpTo(S, n - 1)
                       IN shorter \cup {Append(q, x) : q \in {r \in shorter : Len(r) = n - 1}, x \in S}

\* the sheets where a row is entered once more at the end, after MaxRows - 1
\* rows that write to new and to existing staff
RepeatedFirstRow ==
    {<<a>> \o q \o <<a>> : a \in Rows,
                           q \in {r \in SeqsUpTo({RowC, RowG}, MaxRows - 1) : Len(r) = MaxRows - 1}}

\* every sheet of up to MaxRows rows under the exact headers, these sheets with
\* the first row repeated, and the sheets of at most one row under each other
\* header line
Uploads == [columns : {StdColumns}, rows : SeqsUpTo(Rows, MaxRows) \cup RepeatedFirstRow]
           \cup [columns : ColumnVariants \ {StdColumns}, rows : SeqsUpTo(Rows, Min(MaxRows, 1))]

UserFaults == {"none", "station", "division", "user", "meta"}

MemberFaults == {"none", "station", "division", "user_update", "member", "wallet", "savings"}

\* stores the import can start from
StoreB == [EmptyStore EXCEPT
    !.users = {[staff_id |-> <<"S","1">>, email |-> Text(<<"a","@","x",".","i","o">>), station |-> None, division |-> None,
                directorate |-> <<>>, dependents |-> 0,
                gender |-> "OTHER", marital_status |-> "SINGLE"],
               [staff_id |-> <<"S","2">>, email |-> None, station |-> Text(<<"A","C","C">>), division |-> None,
                directorate |-> <<>>, dependents |-> 0,
                gender |-> "OTHER", marital_status |-> "SINGLE"]},
    !.metas = {<<"S","1">>, <<"S","2">>},
    !.stations = {[code |-> <<"A","C","C">>, name |-> <<"H","e","a","d"," ","O","f","f","i","c","e">>]}]

StoreC == [StoreB EXCEPT
    !.members = {<<"S","1">>},
    !.wallets = {[member |-> <<"S","1">>, cheche_number |-> ChecheNumber(<<"S","1">>)]},
    !.savings = {<<"S","1">>},
    !.stations = {[code |-> <<"A","C","C">>, name |-> <<"A","c","c","r","a"," ","B","r","a","n","c","h">>], [code |-> <<"A","C","C","0","1">>, name |-> <<"A","n","n","e","x">>],
                   [code |-> <<"A","B","X">>, name |-> <<"A","B">>]},
    !.divisions = {[code |-> <<"O","P","S">>, name |-> <<"O","p","s">>, directorate |-> <<"T","e","c","h">>]}]

InitialStores == {EmptyStore, StoreB, StoreC}

(***************************************************************************)
(* State.                                                                  *)
(***************************************************************************)
VARIABLES
    db,                 \* the committed store
    pc,                 \* "idle": no import running; "rows": inside the row loop;
                        \* "returned": the importer has returned its report;
                        \* "invalidated": the handler has invalidated the cache
    kind,               \* "user" (import_users) or "member" (import_members)
    upload,             \* the data frame read from the uploaded file
    header_mapping,     \* stripped header label -> column
    idx,                \* position of the row loop (1-based index into the rows)
    ctx,                \* the open transaction: [tx, broken]
    created,            \* created_users / created_members
    failed_rows,
    skipped_rows,
    created_stations,
    created_divisions,
    last,               \* what the last loop iteration did
    start_db,           \* the committed store when the running import began
    response,           \* the last HTTP response of an import handler
    audit,              \* the audit log, oldest first
    cache_invalidations,\* calls of UserCacheManager.invalidate_all_users
    stage,              \* "first" upload, "rerun" of the same file, or "end"
    first_run,          \* the report of the first import, for the re-run
    procs               \* two imports that run at the same time, each one row

vars == <<db, pc, kind, upload, header_mapping, idx, ctx, created, failed_rows,
          skipped_rows, created_stations, created_divisions, last, start_db,
          response, audit, cache_invalidations, stage, first_run, procs>>

NoUpload == [columns |-> <<>>, rows |-> <<>>]

NoLast == [row_num |-> 0, status |-> "none", field_errors |-> {},
           before |-> EmptyStore, after |-> EmptyStore,
           broken_before |-> FALSE, raised |-> {},
           station_goc |-> "not_called", division_goc |-> "not_called"]

NoResponse == [status |-> 0, code |-> "", summary |-> [total_rows |-> 0],
               successful |-> <<>>, failed |-> <<>>, skipped |-> <<>>]

NoRun == [kind |-> "none", upload |-> NoUpload, successful |-> <<>>]

\* an import of one row that runs beside another one: where it stands (pc), the
\* entity kind and name of its get-or-create, the code probe, its open
\* transaction (tx: the rows it has inserted; broken), what it reported for
\* its row, and the state of a second row of its file ("none": there is none)
IdleProc == [pc |-> "idle", ent |-> "none", name |-> <<>>, original_code |-> <<>>,
             code |-> <<>>, counter |-> 0, tx |-> EmptyStore, broken |-> FALSE,
             lookup |-> "none", goc |-> "not_called", link |-> None, row |-> "none",
             second |-> "none"]

\* the imports that run at the same time
Procs == {1, 2}

NoProcs == [p \in Procs |-> IdleProc]

Init ==
    /\ db \in InitialStores
    /\ pc = "idle"
    /\ kind = "none"
    /\ upload = NoUpload
    /\ header_mapping = <<>>
    /\ idx = 0
    /\ ctx = [tx |-> EmptyStore, broken |-> FALSE, raised |-> {}]
    /\ created = <<>>
    /\ failed_rows = <<>>
    /\ skipped_rows = <<>>
    /\ created_stations = {}
    /\ created_divisions = {}
    /\ last = NoLast
    /\ start_db = db
    /\ response = NoResponse
    /\ audit = <<>>
    /\ cache_invalidations = 0
    /\ stage = "first"
    /\ first_run = NoRun
    /\ procs = NoProcs

RequiredHeaders(k) == IF k = "user" THEN UserRequiredHeaders ELSE MemberRequiredHeaders

ErrorResponse(status, code) == [NoResponse EXCEPT !.status = status, !.code = code]

ImportAction(k, ok) ==
    IF k = "user" THEN (IF ok THEN "EXCEL_USER_IMPORT" ELSE "EXCEL_IMPORT_FAILED")
    ELSE (IF ok THEN "MEMBER_EXCEL_IMPORT" ELSE "MEMBER_IMPORT_FAILED")

loop_vars == <<idx, ctx, created, failed_rows, skipped_rows, created_stations,
               created_divisions, last>>

(***************************************************************************)
(* The handler when the import raises before the row loop:                 *)
(* pd.read_excel fails, or a required header is missing.                   *)
(***************************************************************************)
\* except ValueError: 400 VALIDATION_ERROR, no audit entry
\* except Exception: audit entry FAILED, 500 IMPORT_ERROR
HandleException(k, exc) ==
    /\ response' = IF exc = "ValueError" THEN ErrorResponse(400, "VALIDATION_ERROR")
                   ELSE ErrorResponse(500, "IMPORT_ERROR")
    /\ audit' = IF exc = "ValueError" THEN audit
                ELSE Append(audit, [action |-> ImportAction(k, FALSE), status |-> "FAILED"])

\* pd.read_excel(excel_file) raises
RejectUnreadable(k, exc) ==
    /\ pc = "idle" /\ stage = "first"
    /\ HandleException(k, exc)
    /\ kind' = k
    /\ stage' = "end"
    /\ UNCHANGED <<db, pc, upload, header_mapping, first_run, cache_invalidations, start_db,
                   procs>>
    /\ UNCHANGED loop_vars

\* raise ValueError(f"Missing required headers: ...")
AbortOnHeaders(k, f) ==
    /\ pc = "idle" /\ stage = "first"
    /\ MissingHeaders(RequiredHeaders(k), HeaderMapping(f.columns)) # {}
    /\ HandleException(k, "ValueError")
    /\ kind' = k
    /\ upload' = f
    /\ header_mapping' = HeaderMapping(f.columns)
    /\ stage' = "end"
    /\ UNCHANGED <<db, pc, first_run, cache_invalidations, start_db, procs>>
    /\ UNCHANGED loop_vars

\* the header check passes: "with transaction.atomic():" is entered
EnterLoop(k, f) ==
    /\ MissingHeaders(RequiredHeaders(k), HeaderMapping(f.columns)) = {}
    /\ pc' = "rows"
    /\ kind' = k
    /\ upload' = f
    /\ header_mapping' = HeaderMapping(f.columns)
    /\ idx' = 1
    /\ ctx' = [tx |-> db, broken |-> FALSE, raised |-> {}]
    /\ created' = <<>>
    /\ failed_rows' = <<>>
    /\ skipped_rows' = <<>>
    /\ created_stations' = {}
    /\ created_divisions' = {}
    /\ last' = NoLast
    /\ start_db' = db
    /\ UNCHANGED <<db, response, audit, cache_invalidations, stage, first_run, procs>>

BeginImport(k, f) ==
    /\ pc = "idle" /\ stage = "first"
    /\ EnterLoop(k, f)

\* the same file is uploaded to the same handler a second time
BeginRerun ==
    /\ pc = "idle" /\ stage = "rerun"
    /\ EnterLoop(first_run.kind, first_run.upload)

(***************************************************************************)
(* One iteration of "for index, row in df.iterrows():" with its try/except *)
(***************************************************************************)
\* variant: the position in the sheet, counted from one
RowPosition(i) == i

\* row_num = index + 2, index being the zero-based position in the frame
RowNum(i) == (i - 1) + 2

ProcessRowOf(k, c, row, hm, fault) ==
    IF k = "user" THEN UserProcessRow(c, row, hm, fault)
    ELSE MemberProcessRow(c, row, hm, fault)

\* variant: every row is also recorded as created
AppendCreatedAlways(list, r, row_num) ==
    Append(list, [row |-> row_num, staff_id |-> r.staff_id, email |-> r.email,
                  warnings |-> r.warnings])

\* if result['status'] == 'success': created_users.append({...})
AppendCreated(list, r, row_num) ==
    IF r.status = "success"
    THEN Append(list, [row |-> row_num, staff_id |-> r.staff_id, email |-> r.email,
                       warnings |-> r.warnings])
    ELSE list

\* elif result['status'] == 'failed': failed_rows.append({...})
\* except Exception: failed_rows.append({... 'Unexpected error', 'field_errors': {}})
AppendFailed(list, r, row_num) ==
    IF r.status = "failed"
    THEN Append(list, [row |-> row_num, error |-> r.error, field_errors |-> r.field_errors])
    ELSE IF r.status = "raised"
    THEN Append(list, [row |-> row_num, error |-> "Unexpected error", field_errors |-> {}])
    ELSE list

\* variant: skipped rows are not recorded
AppendSkippedNever(list, r, row_num) == list

\* elif result['status'] == 'skipped': skipped_rows.append({...})
AppendSkipped(list, r, row_num) ==
    IF r.status = "skipped"
    THEN Append(list, [row |-> row_num, reason |-> r.reason])
    ELSE list

\* if result.get('station_created'): created_stations.add(result['station_name'])
AddCreatedName(names, r, was_created, name) ==
    IF r.status = "success" /\ was_created THEN names \cup {name.v} ELSE names

\* the write that the database rejects in this iteration ("none": no write is
\* rejected for an outside reason); the second upload is explored without them
Faults(k) == IF stage = "rerun" THEN {"none"}
             ELSE IF k = "user" THEN UserFaults ELSE MemberFaults

ProcessRow(fault) ==
    /\ pc = "rows"
    /\ idx <= Len(upload.rows)
    /\ fault \in Faults(kind)
    /\ \E row_num \in {RowNum(idx)},
          r \in {ProcessRowOf(kind, [ctx EXCEPT !.raised = {}], upload.rows[idx],
                              header_mapping, fault)} :
          /\ created' = AppendCreated(created, r, row_num)
          /\ failed_rows' = AppendFailed(failed_rows, r, row_num)
          /\ skipped_rows' = AppendSkipped(skipped_rows, r, row_num)
          /\ created_stations' = AddCreatedName(created_stations, r, r.station_created,
                                                r.station_name)
          /\ created_divisions' = AddCreatedName(created_divisions, r, r.division_created,
                                                 r.division_name)
          /\ ctx' = r.c
          /\ last' = [row_num |-> row_num, status |-> r.status,
                      field_errors |-> r.field_errors,
                      before |-> ctx.tx, after |-> r.c.tx,
                      broken_before |-> ctx.broken, raised |-> r.c.raised,
                      station_goc |-> r.station_goc, division_goc |-> r.division_goc]
    /\ idx' = idx + 1
    /\ UNCHANGED <<db, pc, kind, upload, header_mapping, start_db, response, audit,
                   cache_invalidations, stage, first_run, procs>>

(***************************************************************************)
(* After the loop: the atomic block is left, the report is returned and    *)
(* the handler invalidates the cache, writes the audit entry and answers.  *)
(***************************************************************************)
Summary(total_rows, n_created, n_failed, n_skipped, stations, divisions) ==
    [total_rows |-> total_rows,
     total_processed |-> n_created + n_failed + n_skipped,
     successful |-> n_created,
     failed |-> n_failed,
     skipped |-> n_skipped,
     stations_created |-> stations,
     divisions_created |-> divisions]

\* UserCacheManager.invalidate_all_users(): one more call
InvalidateAllUsers(n) == n + 1

\* AuditService.log(action=..., status=SUCCESS, metadata={...})
\* users: total_rows is the sum of the three list lengths;
\* members: total_rows is summary['total_rows']
SuccessEntry(k, total_rows, n_created, n_failed, n_skipped, stations, divisions) ==
    [action |-> ImportAction(k, TRUE),
     status |-> "SUCCESS",
     metadata |-> [total_rows |-> IF k = "user" THEN n_created + n_failed + n_skipped
                                  ELSE total_rows,
                   created |-> n_created,
                   rows_failed |-> n_failed,
                   rows_skipped |-> n_skipped,
                   stations_created |-> Cardinality(stations),
                   divisions_created |-> Cardinality(divisions)]]

\* the row loop is over: the atomic block is left and the importer returns
\* its report to the handler
FinishImport ==
    /\ pc = "rows"
    /\ idx > Len(upload.rows)
    /\ db' = AtomicExit(db, ctx)
    /\ pc' = "returned"
    /\ UNCHANGED <<kind, upload, header_mapping, start_db, response, audit,
                   cache_invalidations, stage, first_run, procs>>
    /\ UNCHANGED loop_vars

\* UserCacheManager.invalidate_all_users()
InvalidateCache ==
    /\ pc = "returned"
    /\ cache_invalidations' = InvalidateAllUsers(cache_invalidations)
    /\ pc' = "invalidated"
    /\ UNCHANGED <<db, kind, upload, header_mapping, start_db, response, audit,
                   stage, first_run, procs>>
    /\ UNCHANGED loop_vars

\* UserCacheManager.invalidate_all_users() raises: cache.delete_pattern fails
\* (the cache server cannot be reached, or the configured backend has no
\* delete_pattern); the call stands inside the try of the handler, so
\* except Exception writes the FAILED audit entry and answers 500
InvalidateCacheRaises ==
    /\ pc = "returned"
    /\ HandleException(kind, "Exception")
    /\ pc' = "idle"
    /\ stage' = "end"
    /\ UNCHANGED <<db, kind, upload, header_mapping, start_db, cache_invalidations,
                   first_run, procs>>
    /\ UNCHANGED loop_vars

\* AuditService.log(... status=SUCCESS ...); return success_response(201)
LogAndRespond ==
    /\ pc = "invalidated"
    /\ audit' = Append(audit, SuccessEntry(kind, Len(upload.rows), Len(created),
                                           Len(failed_rows), Len(skipped_rows),
                                           created_stations, created_divisions))
    /\ response' = [status |-> 201,
                    code |-> IF kind = "user" THEN "USERS_IMPORTED" ELSE "MEMBERS_IMPORTED",
                    summary |-> Summary(Len(upload.rows), Len(created), Len(failed_rows),
                                        Len(skipped_rows), created_stations,
                                        created_divisions),
                    successful |-> created,
                    failed |-> failed_rows,
                    skipped |-> skipped_rows]
    /\ pc' = "idle"
    /\ stage' = IF stage = "first" THEN "rerun" ELSE "end"
    /\ first_run' = IF stage = "first"
                    THEN [kind |-> kind, upload |-> upload, successful |-> created]
                    ELSE first_run
    /\ UNCHANGED <<db, kind, upload, header_mapping, start_db, cache_invalidations, procs>>
    /\ UNCHANGED loop_vars

Next ==
    \/ \E k \in {"user", "member"}, exc \in {"ValueError", "Exception"} : RejectUnreadable(k, exc)
    \/ \E k \in {"user", "member"}, f \in Uploads : AbortOnHeaders(k, f)
    \/ \E k \in {"user", "member"}, f \in Uploads : BeginImport(k, f)
    \/ BeginRerun
    \/ \E fault \in UserFaults \cup MemberFaults : ProcessRow(fault)
    \/ FinishImport
    \/ InvalidateCache
    \/ InvalidateCacheRaises
    \/ LogAndRespond

Spec == Init /\ [][Next]_vars

\* the importer is one sequential run: the for loop over the rows takes the
\* next row whenever there is one, and the function returns after the last
\* (RowStep is the step ProcessRow seen on the loop index: ProcessRow is
\* enabled exactly when RowStep is, and no other step of Next inside the
\* loop raises idx by one)
RowStep == pc = "rows" /\ idx <= Len(upload.rows) /\ idx' = idx + 1

LiveSpec ==
    /\ Spec
    /\ WF_idx(RowStep)
    /\ WF_vars(FinishImport)

(***************************************************************************)
(* Two imports that run at the same time.  Each one is a full-user import  *)
(* of one row with a new staff number and a station or a division name.    *)
(* Every query and every insert of get-or-create is a step of its own; a   *)
(* query reads the committed rows and the rows of its own transaction      *)
(* (READ COMMITTED, the isolation level Django runs with).                 *)
(***************************************************************************)
ConcNames == {<<"A","c","c","r","a"," ","B","r","a","n","c","h">>,
              <<"A","C","C","R","A"," ","B","R","A","N","C","H">>,
              <<"A","c","c","e","s","s"," ","P","o","i","n","t">>}

\* the staff number of the row of import p
WorkerStaff(p) == <<"W", DigitChars[p + 1]>>

EntNamed(st, ent, name) ==
    IF ent = "station" THEN StationsNamed(st, name) ELSE DivisionsNamed(st, name)

EntCodes(st, ent) == IF ent = "station" THEN StationCodes(st) ELSE DivisionCodes(st)

EntDefault(ent) == IF ent = "station" THEN DefaultStationCode ELSE DefaultDivisionCode

NewEnt(ent, code, name) ==
    IF ent = "station" THEN [code |-> SavedCode(code), name |-> name]
    ELSE [code |-> SavedCode(code), name |-> name, directorate |-> <<>>]

AddEnt(st, ent, e) ==
    IF ent = "station" THEN [st EXCEPT !.stations = @ \cup {e}]
    ELSE [st EXCEPT !.divisions = @ \cup {e}]

\* what a query of import p reads
Visible(p) == [k \in DOMAIN db |-> db[k] \cup procs[p].tx[k]]

conc_unchanged == <<pc, kind, upload, header_mapping, idx, ctx, created, failed_rows,
                    skipped_rows, created_stations, created_divisions, last, start_db,
                    response, audit, cache_invalidations, stage, first_run>>

\* with transaction.atomic(): the row of import p reaches get-or-create
CBegin(p, ent, name) ==
    /\ procs[p].pc = "idle"
    /\ procs' = [procs EXCEPT ![p] = [@ EXCEPT !.pc = "lookup", !.ent = ent, !.name = name]]
    /\ UNCHANGED db
    /\ UNCHANGED conc_unchanged

\* Station.objects.filter(name__iexact=station_name).first()
CLookup(p) ==
    /\ procs[p].pc = "lookup"
    /\ \E found \in {EntNamed(Visible(p), procs[p].ent, procs[p].name)},
          base \in {BaseCode(procs[p].name, EntDefault(procs[p].ent))} :
          procs' = [procs EXCEPT ![p] =
              IF found # {}
              THEN [@ EXCEPT !.pc = "save", !.lookup = "found", !.goc = "found",
                             !.link = Text(FirstByCode(found).code)]
              ELSE [@ EXCEPT !.pc = "probe", !.lookup = "not_found",
                             !.original_code = base, !.code = base, !.counter = 1]]
    /\ UNCHANGED db
    /\ UNCHANGED conc_unchanged

\* while Station.objects.filter(code=code).exists(): one evaluation of the test
CProbe(p) ==
    /\ procs[p].pc = "probe"
    /\ procs' = [procs EXCEPT ![p] =
          IF procs[p].code \in EntCodes(Visible(p), procs[p].ent)
          THEN [@ EXCEPT !.code = procs[p].original_code \o Format02d(procs[p].counter),
                         !.counter = @ + 1]
          ELSE [@ EXCEPT !.pc = "create"]]
    /\ UNCHANGED db
    /\ UNCHANGED conc_unchanged

\* Station.objects.create(code=code, ...): the insert waits while another open
\* transaction holds a row with this code; a committed row with this code
\* makes it raise IntegrityError, which get-or-create catches (return None)
CCreate(p) ==
    /\ procs[p].pc = "create"
    /\ \A q \in Procs :
          q # p => SavedCode(procs[p].code) \notin EntCodes(procs[q].tx, procs[p].ent)
    /\ procs' = [procs EXCEPT ![p] =
          IF SavedCode(procs[p].code) \in EntCodes(Visible(p), procs[p].ent)
          THEN [@ EXCEPT !.pc = "save", !.broken = TRUE, !.goc = "failed"]
          ELSE [@ EXCEPT !.pc = "save", !.goc = "created",
                         !.link = Text(SavedCode(procs[p].code)),
                         !.tx = AddEnt(@, procs[p].ent,
                                       NewEnt(procs[p].ent, procs[p].code, procs[p].name))]]
    /\ UNCHANGED db
    /\ UNCHANGED conc_unchanged

\* try: user.save(); UserAccountMeta.objects.create(user=user)
\* except Exception: failed, field_errors {'database': ...}
CSaveUser(p) ==
    /\ procs[p].pc = "save"
    /\ procs' = [procs EXCEPT ![p] =
          IF procs[p].broken
          THEN [@ EXCEPT !.pc = "exit", !.row = "failed"]
          ELSE [@ EXCEPT !.pc = "exit", !.row = "created",
                         !.tx = [@ EXCEPT
                            !.users = @ \cup {[staff_id |-> WorkerStaff(p), email |-> None,
                                station |-> IF procs[p].ent = "station"
                                            THEN procs[p].link ELSE None,
                                division |-> IF procs[p].ent = "division"
                                             THEN procs[p].link ELSE None,
                                directorate |-> <<>>, dependents |-> 0,
                gender |-> "OTHER", marital_status |-> "SINGLE"]},
                            !.metas = @ \cup {WorkerStaff(p)}]]]
    /\ UNCHANGED db
    /\ UNCHANGED conc_unchanged

\* the atomic block of import p is left: commit, or rollback when it is broken
CExit(p) ==
    /\ procs[p].pc = "exit"
    /\ db' = IF procs[p].broken THEN db ELSE Visible(p)
    /\ procs' = [procs EXCEPT ![p] = [@ EXCEPT !.pc = "done", !.tx = EmptyStore]]
    /\ UNCHANGED conc_unchanged

ConcNext ==
    \/ \E p \in Procs, ent \in {"station", "division"}, name \in ConcNames :
          CBegin(p, ent, name)
    \/ \E p \in Procs : CLookup(p)
    \/ \E p \in Procs : CProbe(p)
    \/ \E p \in Procs : CCreate(p)
    \/ \E p \in Procs : CSaveUser(p)
    \/ \E p \in Procs : CExit(p)

ConcSpec == Init /\ [][ConcNext]_vars

(***************************************************************************)
(* Two full-user imports that run at the same time and whose files hold    *)
(* the same new staff number.  The file of an import may hold a second     *)
(* row, whose insert the database rejects.  staff_id is a unique column:   *)
(* an insert waits while another open transaction holds a row with the     *)
(* same staff_id, and raises IntegrityError when a committed row has it.   *)
(***************************************************************************)
SharedStaff == <<"N","1">>

\* where import p goes after its first row
AfterFirstRow(p) == IF procs[p].second = "pending" THEN "second" ELSE "exit"

\* with transaction.atomic(): the loop of import p reaches the row
SBegin(p, two_rows) ==
    /\ procs[p].pc = "idle"
    /\ procs' = [procs EXCEPT ![p] =
          [@ EXCEPT !.pc = "check", !.second = IF two_rows THEN "pending" ELSE "none"]]
    /\ UNCHANGED db
    /\ UNCHANGED conc_unchanged

\* if User.objects.filter(staff_id=staff_number).exists(): skipped
SCheck(p) ==
    /\ procs[p].pc = "check"
    /\ procs' = [procs EXCEPT ![p] =
          IF UsersWithStaff(Visible(p), SharedStaff) # {}
          THEN [@ EXCEPT !.pc = AfterFirstRow(p), !.row = "skipped"]
          ELSE [@ EXCEPT !.pc = "insert"]]
    /\ UNCHANGED db
    /\ UNCHANGED conc_unchanged

\* try: user.save(); UserAccountMeta.objects.create(user=user)
\* except Exception: failed, field_errors {'database': ...}
SInsert(p) ==
    /\ procs[p].pc = "insert"
    /\ \A q \in Procs : q # p => UsersWithStaff(procs[q].tx, SharedStaff) = {}
    /\ procs' = [procs EXCEPT ![p] =
          IF UsersWithStaff(db, SharedStaff) # {}
          THEN [@ EXCEPT !.pc = AfterFirstRow(p), !.row = "failed", !.broken = TRUE]
          ELSE [@ EXCEPT !.pc = AfterFirstRow(p), !.row = "created",
                         !.tx = [@ EXCEPT
                            !.users = @ \cup {[staff_id |-> SharedStaff, email |-> None,
                                               station |-> None, division |-> None,
                                               directorate |-> <<>>, dependents |-> 0,
                                               gender |-> "OTHER",
                                               marital_status |-> "SINGLE"]},
                            !.metas = @ \cup {SharedStaff}]]]
    /\ UNCHANGED db
    /\ UNCHANGED conc_unchanged

\* the second row of the file: its insert raises (or, in a broken
\* transaction, its first query does); the row is Failed and the
\* transaction is marked for rollback
SSecond(p) ==
    /\ procs[p].pc = "second"
    /\ procs' = [procs EXCEPT ![p] =
          [@ EXCEPT !.pc = "exit", !.second = "failed", !.broken = TRUE]]
    /\ UNCHANGED db
    /\ UNCHANGED conc_unchanged

StaffNext ==
    \/ \E p \in Procs, two_rows \in BOOLEAN : SBegin(p, two_rows)
    \/ \E p \in Procs : SCheck(p)
    \/ \E p \in Procs : SInsert(p)
    \/ \E p \in Procs : SSecond(p)
    \/ \E p \in Procs : CExit(p)

StaffSpec == Init /\ [][StaffNext]_vars

(***************************************************************************)
(* Properties of the report.                                               *)
(***************************************************************************)
\* an import has answered 201 and no other import is running
Finished == pc = "idle" /\ response.status = 201

\* the row that the last loop iteration processed
LastRow == upload.rows[idx - 1]

RowsOf(list) == {list[i].row : i \in DOMAIN list}

Occurrences(list, row_num) == Cardinality({i \in DOMAIN list : list[i].row = row_num})

\* C1: an import that does not abort on a missing header answers with a
\* summary where total_processed = successful + failed + skipped = total_rows,
\* total_rows being the number of data rows of the upload, and the three
\* counts are the lengths of the three lists of the report.
C1_CountsSumToTotalRows ==
    Finished =>
        /\ response.summary.total_rows = Len(upload.rows)
        /\ response.summary.total_processed = response.summary.total_rows
        /\ response.summary.total_processed =
              response.summary.successful + response.summary.failed + response.summary.skipped
        /\ response.summary.successful = Len(response.successful)
        /\ response.summary.failed = Len(response.failed)
        /\ response.summary.skipped = Len(response.skipped)

\* a finished import of two rows, one of them created and one of them skipped
C1_Witness ==
    /\ Finished
    /\ response.summary.total_rows = 2
    /\ response.summary.successful = 1
    /\ response.summary.skipped = 1

\* C2: every data row that the loop has processed has its row number exactly
\* once across the successful, failed and skipped lists taken together; a row
\* whose processing raised an unexpected exception is in the failed list only;
\* the lists of the report are these lists.
C2_ExactlyOneOutcomePerRow ==
    /\ \A i \in 1..(idx - 1) :
          Occurrences(created, RowNum(i)) + Occurrences(failed_rows, RowNum(i))
             + Occurrences(skipped_rows, RowNum(i)) = 1
    /\ RowsOf(created) \cup RowsOf(failed_rows) \cup RowsOf(skipped_rows)
          = {RowNum(i) : i \in 1..(idx - 1)}
    /\ last.status = "raised" =>
          /\ Occurrences(failed_rows, last.row_num) = 1
          /\ last.row_num \notin RowsOf(created) \cup RowsOf(skipped_rows)
    /\ Finished =>
          /\ response.successful = created
          /\ response.failed = failed_rows
          /\ response.skipped = skipped_rows
          /\ idx - 1 = Len(upload.rows)

\* the second row of a sheet raised an unexpected exception after the first
\* row was created
C2_Witness ==
    /\ last.status = "raised"
    /\ last.row_num = RowNum(2)
    /\ RowNum(1) \in RowsOf(created)

\* the 'Staff #' cell of the row is missing, empty or whitespace-only
StaffCellBlank(row) ==
    \/ row[1] = NaN
    \/ (row[1].t = "str" /\ \A i \in DOMAIN row[1].v : IsSpace(row[1].v[i]))

\* C3: in both importers a row whose 'Staff #' cell is missing, empty or
\* whitespace-only is Failed with a field error keyed 'Staff #', never
\* Skipped or Created, whatever the other cells and the store contain.
C3_BlankStaffFails ==
    (last.status # "none" /\ StaffCellBlank(LastRow)) =>
        /\ last.status = "failed"
        /\ "Staff #" \in last.field_errors
        /\ failed_rows # <<>>
        /\ failed_rows[Len(failed_rows)].row = last.row_num
        /\ "Staff #" \in failed_rows[Len(failed_rows)].field_errors
        /\ last.after = last.before

\* a whitespace-only 'Staff #' cell failed in the member import over a store
\* that holds users, with other cells of the row filled
C3_Witness ==
    /\ last.status = "failed"
    /\ kind = "member"
    /\ LastRow[1] # NaN
    /\ StaffCellBlank(LastRow)
    /\ LastRow[3] # NaN
    /\ last.before.users # {}

\* a required header of the importer is absent from the trimmed column labels
HeaderAbsent(k, columns) ==
    \E h \in (IF k = "user" THEN {HStaff, HName} ELSE {HStaff}) :
        \A j \in DOMAIN columns : Strip(columns[j]) # h

\* C4: when a required header ('Staff #' for the member import, 'Staff #' or
\* 'Name' for the full-user import) is absent after trimming the labels, the
\* import raises before any row is processed: no row outcome exists, the
\* stores are unchanged, and the handler answers 400.
C4_MissingHeaderAborts ==
    (kind # "none" /\ upload # NoUpload /\ HeaderAbsent(kind, upload.columns)) =>
        /\ pc = "idle"
        /\ idx = 0
        /\ created = <<>> /\ failed_rows = <<>> /\ skipped_rows = <<>>
        /\ last = NoLast
        /\ db = start_db
        /\ ctx.tx = EmptyStore
        /\ response.status = 400
        /\ response.code = "VALIDATION_ERROR"

\* the full-user import answered 400 for a sheet of one row without 'Name'
C4_Witness ==
    /\ kind = "user"
    /\ upload.columns = NoNameColumns
    /\ Len(upload.rows) = 1
    /\ response.status = 400
    /\ db # EmptyStore

(***************************************************************************)
(* Properties of the transaction and of a repeated upload.                 *)
(***************************************************************************)
\* C5: importing the same file twice in sequence: every row that the first
\* run reported Created is Skipped by the second run and not Created again.
C5_RerunSkipsCreatedRows ==
    (stage = "end" /\ Finished /\ first_run.kind # "none") =>
        \A i \in DOMAIN first_run.successful :
            /\ first_run.successful[i].row \in RowsOf(response.skipped)
            /\ first_run.successful[i].row \notin RowsOf(response.successful)

\* the writes of a row outside get-or-create
RowWrites == {"user", "meta", "user_update", "member", "wallet", "savings"}

\* C6: a persistence error raised while a row is processed leaves the row
\* Failed with the exception text under field_errors.database, and the loop
\* goes on to the next row.
C6_PersistenceErrorIsDatabaseFailure ==
    (last.raised \cap RowWrites # {}) =>
        /\ pc = "rows" \/ Finished
        /\ failed_rows # <<>>
        /\ failed_rows[Len(failed_rows)].row = last.row_num
        /\ "database" \in failed_rows[Len(failed_rows)].field_errors

\* C7: in the full-user import the records of every row reported Created are
\* in the committed store when the import has answered, whatever happened
\* to later rows.
C7_CreatedRowsAreCommitted ==
    (Finished /\ kind = "user") =>
        \A i \in DOMAIN response.successful :
            /\ UsersWithStaff(db, response.successful[i].staff_id) # {}
            /\ response.successful[i].staff_id \in db.metas

\* the staff identifier of a data row, as the importer reads it
StaffOfRow(row_num) ==
    LET cell == upload.rows[row_num - 1][1]
    IN IF cell = NaN THEN <<>>
       ELSE IF kind = "user" THEN UserCleanString(PyStr(cell))
       ELSE MemberCleanString(PyStr(cell))

\* everything the store holds for one staff identifier
RecordsOf(store, staff_id) ==
    [users |-> UsersWithStaff(store, staff_id),
     meta |-> staff_id \in store.metas,
     member |-> staff_id \in store.members,
     wallets |-> {w \in store.wallets : w.member = staff_id},
     savings |-> staff_id \in store.savings]

DatabaseFailures == {i \in DOMAIN failed_rows : "database" \in failed_rows[i].field_errors}

\* C8: when the import has answered, a row reported Failed because a write
\* raised has left nothing in the store: the User, UserAccountMeta, Member,
\* Wallet and SavingsAccount of its staff identifier are what they were
\* before the import, the updates of the existing User included.
C8_FailedRowLeavesNothing ==
    Finished =>
        \A i \in DatabaseFailures :
            RecordsOf(db, StaffOfRow(failed_rows[i].row))
               = RecordsOf(start_db, StaffOfRow(failed_rows[i].row))

\* a row failed on the account-metadata create after its User was saved, or
\* on the Wallet create after its Member was created: the transaction held
\* the partial records, the store does not
C8_Witness ==
    /\ Finished
    /\ \E i \in DatabaseFailures :
          /\ RecordsOf(ctx.tx, StaffOfRow(failed_rows[i].row))
                # RecordsOf(start_db, StaffOfRow(failed_rows[i].row))
          /\ RecordsOf(db, StaffOfRow(failed_rows[i].row))
                = RecordsOf(start_db, StaffOfRow(failed_rows[i].row))

(***************************************************************************)
(* Properties of get-or-create.                                            *)
(***************************************************************************)
\* the text of a cell of the last row as the importer of this kind cleans it
LastCell(col) ==
    IF LastRow[col] = NaN THEN <<>>
    ELSE IF kind = "user" THEN UserCleanString(PyStr(LastRow[col]))
    ELSE MemberCleanString(PyStr(LastRow[col]))

NewStations == last.after.stations \ last.before.stations

NewDivisions == last.after.divisions \ last.before.divisions

\* exactly one entity was added, under this name, with a code of three or
\* more characters that no other entity of the set has
OneNewEntity(new, all, name) ==
    /\ Cardinality(new) = 1
    /\ \A e \in new :
          /\ e.name = name
          /\ Len(e.code) >= 3
          /\ \A o \in all : o.code = e.code => o = e

RefersToNewStation ==
    /\ last.status # "none"
    /\ LastCell(4) # <<>>
    /\ \A e \in last.before.stations : ToLower(e.name) # ToLower(LastCell(4))

RefersToNewDivision ==
    /\ last.status # "none"
    /\ LastCell(5) # <<>>
    /\ \A e \in last.before.divisions : ToLower(e.name) # ToLower(LastCell(5))

PassedChecks ==
    /\ last.status \notin {"none", "skipped"}
    /\ ~last.broken_before
    /\ ~(last.status = "failed" /\ last.field_errors \cap {"Staff #", "Name"} # {})

ExpectedBase(name, default) ==
    LET letters == ToUpper(SelectSeq(name, IsAsciiLetter))
    IN IF letters = <<>> THEN default
       ELSE IF Len(letters) >= 3 THEN SubSeq(letters, 1, 3)
       ELSE letters \o [i \in 1..(3 - Len(letters)) |-> "X"]

TwoDigits(n) == <<DigitChars[(n \div 10) + 1], DigitChars[(n % 10) + 1]>>

ExpectedCode(name, default, used) ==
    LET base == ExpectedBase(name, default)
        free == {n \in 1..99 : (base \o TwoDigits(n)) \notin used}
    IN IF base \notin used THEN base
       ELSE base \o TwoDigits(CHOOSE n \in free : \A m \in free : n <= m)

\* C10: the code of an entity that get-or-create creates is the base code
\* (letters of the name, uppercased, first three, padded with 'X', or
\* STN / DIV) when it is unused, else the base followed by the smallest
\* counter n >= 1, as two digits, for which the code is unused.
C10_CodeRule ==
    /\ last.station_goc = "created" =>
          \A e \in NewStations :
              e.code = ExpectedCode(e.name, <<"S","T","N">>, StationCodes(last.before))
    /\ last.division_goc = "created" =>
          \A e \in NewDivisions :
              e.code = ExpectedCode(e.name, <<"D","I","V">>, DivisionCodes(last.before))

\* 'Accra Branch' holds ACC and the row's 'Access Point' was created as ACC01
C10_Witness ==
    /\ last.station_goc = "created"
    /\ [code |-> <<"A","C","C">>,
        name |-> <<"A","c","c","r","a"," ","B","r","a","n","c","h">>] \in last.before.stations
    /\ [code |-> <<"A","C","C","0","1">>,
        name |-> <<"A","c","c","e","s","s"," ","P","o","i","n","t">>] \in NewStations

(***************************************************************************)
(* Properties of duplicates, optional cells and not-found rows.            *)
(***************************************************************************)
\* C11: within one import, when an earlier row with staff number s was
\* Created, every later row with the same staff number is Skipped, and at
\* most one row per staff number is Created.
C11_LaterDuplicatesAreSkipped ==
    /\ \A i, j \in 1..(idx - 1) :
          (/\ i < j
           /\ StaffOfRow(RowNum(i)) = StaffOfRow(RowNum(j))
           /\ RowNum(i) \in RowsOf(created))
          => RowNum(j) \in RowsOf(skipped_rows)
    /\ \A a, b \in DOMAIN created : created[a].staff_id = created[b].staff_id => a = b

\* the text has no '@', or no '.' after its last '@'
Malformed(e) ==
    \/ \A i \in DOMAIN e : e[i] # "@"
    \/ \E k \in DOMAIN e :
          /\ e[k] = "@"
          /\ \A i \in (k + 1)..Len(e) : e[i] \notin {"@", "."}

\* the last row of a full-user import has a staff number, a name and a
\* non-empty malformed Email cell
MalformedEmailRow ==
    /\ kind = "user"
    /\ last.status # "none"
    /\ LastCell(1) # <<>> /\ LastCell(2) # <<>>
    /\ LastCell(3) # <<>> /\ Malformed(LastCell(3))

\* C12: in the full-user import a row with a staff number and a name whose
\* Email cell is non-empty but malformed is not Failed because of it: when
\* nothing else stops the row (new staff number, no write rejected, finite
\* dependents) it is Created; whenever it is Created its outcome carries the
\* invalid-email warning and the User written for it has no email; when it
\* is Failed, no field error names the email.
C12_MalformedEmailIsWarning ==
    MalformedEmailRow =>
        /\ (/\ ~last.broken_before
            /\ UsersWithStaff(last.before, LastCell(1)) = {}
            /\ last.raised = {}
            /\ ToLower(LastCell(7)) \notin Infinities)
           => last.status = "success"
        /\ last.status = "success" =>
              /\ "invalid_email" \in Range(created[Len(created)].warnings)
              /\ created[Len(created)].row = last.row_num
              /\ created[Len(created)].email = None
              /\ \A u \in UsersWithStaff(last.after, LastCell(1)) : u.email = None
              /\ UsersWithStaff(last.after, LastCell(1)) # {}
        /\ last.status = "failed" => last.field_errors \subseteq {"database"}

\* a row with the email 'h@x' was created, without email
C12_Witness ==
    /\ MalformedEmailRow
    /\ "@" \in Range(LastCell(3))
    /\ last.status = "success"
    /\ \E u \in UsersWithStaff(last.after, LastCell(1)) : u.email = None

\* C13: in the member import a row whose non-blank staff number matches no
\* existing User is always Skipped, never Failed and never Created, and
\* nothing is written for it.
C13_UnknownStaffIsSkipped ==
    (/\ kind = "member"
     /\ last.status # "none"
     /\ LastCell(1) # <<>>
     /\ UsersWithStaff(last.before, LastCell(1)) = {})
    => /\ last.status = "skipped"
       /\ skipped_rows # <<>>
       /\ skipped_rows[Len(skipped_rows)].row = last.row_num
       /\ skipped_rows[Len(skipped_rows)].reason = "not found"
       /\ last.after = last.before

\* C14: when station or division get-or-create raises a persistence
\* exception the row is not failed by it: in both importers the row is
\* Created without that link and its outcome carries the
\* could-not-create warning.
C14_GetOrCreateErrorIsWarning ==
    /\ "station" \in last.raised =>
          /\ last.status = "success"
          /\ created[Len(created)].row = last.row_num
          /\ "station_not_created" \in Range(created[Len(created)].warnings)
    /\ "division" \in last.raised =>
          /\ last.status = "success"
          /\ created[Len(created)].row = last.row_num
          /\ "division_not_created" \in Range(created[Len(created)].warnings)

(***************************************************************************)
(* Properties of imports that run at the same time.                        *)
(***************************************************************************)
\* both imports went past the lookup without a match, for names of one kind
\* that are equal up to letter case, and both attempted the insert
BothAttemptedCreate ==
    /\ \A p \in Procs :
          procs[p].lookup = "not_found" /\ procs[p].pc \in {"save", "exit", "done"}
    /\ procs[1].ent = procs[2].ent
    /\ ToLower(procs[1].name) = ToLower(procs[2].name)

\* C15: when two concurrent imports both pass the not-found lookup for the
\* same new name and both attempt to create it, the create of one of them
\* fails on the unique code, and the row of that import is reported Failed.
C15_LoserCreateFails ==
    BothAttemptedCreate =>
        \E p \in Procs :
            /\ procs[p].goc = "failed"
            /\ procs[p].row \in {"none", "failed"}

\* C16: no two stations and no two divisions of the store have the same name
\* up to letter case.
C16_NamesUniqueUpToCase ==
    /\ \A a, b \in db.stations : ToLower(a.name) = ToLower(b.name) => a = b
    /\ \A a, b \in db.divisions : ToLower(a.name) = ToLower(b.name) => a = b

(***************************************************************************)
(* Properties of the codes.                                                *)
(***************************************************************************)
DistinctCodes(ents) == \A a, b \in ents : a.code = b.code => a = b

\* three uppercase letters, then nothing or two or more digits
WellFormedCode(code) ==
    /\ Len(code) >= 3
    /\ \A i \in 1..3 : code[i] \in Range(UpperCase)
    /\ \A i \in 4..Len(code) : code[i] \in Range(DigitChars)
    /\ Len(code) # 4

\* the entities that the running or the last import has inserted
GeneratedStations == ctx.tx.stations \ start_db.stations

GeneratedDivisions == ctx.tx.divisions \ start_db.divisions

\* C17: in every reachable state the stations have pairwise distinct codes
\* and the divisions have pairwise distinct codes, in the store and in every
\* open transaction, and every code that the importer generated is three
\* uppercase letters, optionally followed by a suffix of two or more digits.
C17_CodesDistinctAndWellFormed ==
    /\ DistinctCodes(db.stations) /\ DistinctCodes(db.divisions)
    /\ DistinctCodes(ctx.tx.stations) /\ DistinctCodes(ctx.tx.divisions)
    /\ \A p \in Procs :
          DistinctCodes(Visible(p).stations) /\ DistinctCodes(Visible(p).divisions)
    /\ \A e \in GeneratedStations \cup GeneratedDivisions : WellFormedCode(e.code)
    /\ \A p \in Procs : \A e \in procs[p].tx.stations \cup procs[p].tx.divisions :
          WellFormedCode(e.code)

\* an import has generated a padded code and a code with a suffix, next to
\* a station that was there before
C17_Witness ==
    /\ \E e \in GeneratedStations : Len(e.code) = 5
    /\ \E e \in GeneratedStations : e.code[3] = "X"
    /\ GeneratedDivisions # {}
    /\ start_db.stations # {}

(***************************************************************************)
(* Properties of the handler around the import.                            *)
(***************************************************************************)
SuccessEntries == {i \in DOMAIN audit : audit[i].status = "SUCCESS"}

\* the audit entry that summarises the batch the importer has just returned
BatchEntry(e) ==
    /\ e.status = "SUCCESS"
    /\ e.action = ImportAction(kind, TRUE)
    /\ e.metadata.total_rows = Len(upload.rows)
    /\ e.metadata.created = Len(created)
    /\ e.metadata.rows_failed = Len(failed_rows)
    /\ e.metadata.rows_skipped = Len(skipped_rows)
    /\ e.metadata.stations_created = Cardinality(created_stations)
    /\ e.metadata.divisions_created = Cardinality(created_divisions)

\* the importer is running or returning: no audit entry, no invalidation
ImporterStep ==
    (pc = "rows" \/ pc' = "rows") =>
        audit' = audit /\ cache_invalidations' = cache_invalidations

\* after the return the handler first invalidates the cache once, then
\* writes one SUCCESS entry about this batch
HandlerStep ==
    /\ pc = "returned" =>
          /\ pc' = "invalidated"
          /\ cache_invalidations' = cache_invalidations + 1
          /\ audit' = audit
    /\ pc = "invalidated" =>
          /\ pc' = "idle"
          /\ cache_invalidations' = cache_invalidations
          /\ Len(audit') = Len(audit) + 1
          /\ SubSeq(audit', 1, Len(audit)) = audit
          /\ BatchEntry(audit'[Len(audit')])
          /\ response'.status = 201

\* C18: the importer writes neither an audit entry nor to the cache; after
\* the importer has returned its report, the handler invalidates the
\* directory cache exactly once and then writes exactly one audit entry, of
\* status SUCCESS, with the counts of that batch: there is one invalidation
\* per SUCCESS entry, the invalidation coming first.
C18_OneInvalidationThenOneAudit ==
    /\ [](cache_invalidations =
             Cardinality(SuccessEntries) + (IF pc = "invalidated" THEN 1 ELSE 0))
    /\ [][ImporterStep /\ HandlerStep]_vars

(***************************************************************************)
(* Properties of the order of the report.                                  *)
(***************************************************************************)
StrictlyIncreasing(list) ==
    \A i, j \in DOMAIN list : i < j => list[i].row < list[j].row

\* the row numbers of the data rows with zero-based index below n
RowNumbersBelow(n) == {k + 2 : k \in 0..(n - 1)}

\* one iteration of the loop: the row at the loop position is processed, it
\* gets the number zero-based index + 2, and the entry that is appended to
\* one of the lists carries that number
InFileOrder ==
    (pc = "rows" /\ pc' = "rows") =>
        /\ idx' = idx + 1
        /\ last'.row_num = (idx - 1) + 2
        /\ \E list \in {<<created, created'>>, <<failed_rows, failed_rows'>>,
                        <<skipped_rows, skipped_rows'>>} :
              /\ Len(list[2]) = Len(list[1]) + 1
              /\ list[2][Len(list[2])].row = (idx - 1) + 2

\* C19: the rows are processed in file order, the row with zero-based index
\* k under the number k + 2, and the successful, failed and skipped lists,
\* in the loop and in the report, are each strictly increasing in the row
\* number; a successful entry carries the staff identifier of its row.
C19_FileOrderAndIncreasingLists ==
    /\ [](/\ StrictlyIncreasing(created)
          /\ StrictlyIncreasing(failed_rows)
          /\ StrictlyIncreasing(skipped_rows)
          /\ RowsOf(created) \cup RowsOf(failed_rows) \cup RowsOf(skipped_rows)
                = RowNumbersBelow(idx - 1)
          /\ upload.columns = StdColumns =>
                \A i \in DOMAIN created : created[i].staff_id = StaffOfRow(created[i].row)
          /\ Finished =>
                /\ StrictlyIncreasing(response.successful)
                /\ StrictlyIncreasing(response.failed)
                /\ StrictlyIncreasing(response.skipped)
                /\ RowsOf(response.successful) \cup RowsOf(response.failed)
                      \cup RowsOf(response.skipped) = RowNumbersBelow(Len(upload.rows)))
    /\ [][InFileOrder]_vars

\* a report of three rows: rows 2 and 4 failed, row 3 between them created
C19_Witness ==
    /\ Finished
    /\ Len(response.failed) = 2
    /\ response.failed[1].row = 2 /\ response.failed[2].row = 4
    /\ Len(response.successful) = 1
    /\ response.successful[1].row = 3

(***************************************************************************)
(* Properties of the created names of the report.                          *)
(***************************************************************************)
\* the names of the entities that the store holds now and did not hold when
\* the import began
NewlyInStore(now, before) == {e.name : e \in now \ before}

\* C20: the stations_created and divisions_created of the report are exactly
\* the names of the stations and divisions that this import has newly put in
\* the store, those created by a row that ended Failed included.
C20_CreatedNamesAreTheNewEntities ==
    Finished =>
        /\ response.summary.stations_created = NewlyInStore(db.stations, start_db.stations)
        /\ response.summary.divisions_created = NewlyInStore(db.divisions, start_db.divisions)

(***************************************************************************)
(* Properties of the Sex and Marital Status cells.                         *)
(***************************************************************************)
\* the spellings of _parse_gender, and 'M/F' with its own branch
KnownSex == MaleSpellings \cup FemaleSpellings \cup {<<"M","/","F">>}

\* the cell of the last row holds a text that is none of the given spellings
UnknownSpelling(col, known) ==
    /\ LastCell(col) # <<>>
    /\ Strip(ToUpper(LastCell(col))) \notin known

\* the user that the last row has created
LastUser == CHOOSE u \in last.after.users : u.staff_id = LastCell(1)

LastWarnings == Range(created[Len(created)].warnings)

\* C21: in the full-user import a Created row whose Sex or Marital Status
\* cell holds an unrecognised spelling stores the default (gender OTHER,
\* marital status SINGLE) and carries a warning about that value.
C21_UnknownSpellingIsDefaultWithWarning ==
    (kind = "user" /\ last.status = "success") =>
        /\ UnknownSpelling(8, KnownSex) =>
              /\ LastUser.gender = "OTHER"
              /\ "invalid_gender" \in LastWarnings
        /\ UnknownSpelling(9, DOMAIN StatusMap) =>
              /\ LastUser.marital_status = "SINGLE"
              /\ "invalid_marital_status" \in LastWarnings

(***************************************************************************)
(* Properties of the dependents count.                                     *)
(***************************************************************************)
\* the whole number of a value given in tenths, cut off towards zero and
\* not below zero
ClampedWhole(tenths) ==
    IF tenths <= 0 THEN 0
    ELSE CHOOSE k \in 0..tenths : 10 * k <= tenths /\ tenths < 10 * (k + 1)

\* a text without any digit that is not a spelling of infinity
NonNumericText(cell) ==
    /\ cell.t = "str"
    /\ \A i \in DOMAIN cell.v : cell.v[i] \notin Range(DigitChars)
    /\ ToLower(Strip(cell.v)) \notin Infinities

\* C22: the dependents count of a user that the full-user import has
\* Created is never negative: a numeric cell is stored as the maximum of 0
\* and the value cut off to a whole number, a missing cell as 0, and a
\* non-numeric cell as 0 together with a warning on the row.
C22_DependentsNeverNegative ==
    /\ \A u \in ctx.tx.users \cup db.users : u.dependents >= 0
    /\ (kind = "user" /\ last.status = "success") =>
          /\ LastUser.dependents >= 0
          /\ LastRow[7].t = "num" => LastUser.dependents = ClampedWhole(LastRow[7].tenths)
          /\ LastRow[7] = NaN => LastUser.dependents = 0
          /\ NonNumericText(LastRow[7]) =>
                /\ LastUser.dependents = 0
                /\ "invalid_dependents" \in LastWarnings

\* a sheet of two Created rows: the first with the cell 2.7, stored as 2,
\* the second with the cell -1.5, stored as 0
C22_Witness ==
    /\ kind = "user" /\ last.status = "success"
    /\ Len(created) = 2
    /\ upload.rows[1][7] = Num(27)
    /\ \E u \in last.after.users : u.staff_id = created[1].staff_id /\ u.dependents = 2
    /\ LastRow[7] = Num(0 - 15)
    /\ LastUser.dependents = 0

(***************************************************************************)
(* Properties of the uniqueness of the email.                              *)
(***************************************************************************)
SharedEmail(users) ==
    \E u, v \in users : u # v /\ u.email # None /\ u.email = v.email

\* the last row of a full-user import has a new staff number, a name and a
\* well-formed email that, as it would be stored, is the email of a record
\* that is there when the row is processed
DuplicateEmailRow ==
    /\ kind = "user"
    /\ last.status # "none"
    /\ ~last.broken_before
    /\ LastCell(1) # <<>> /\ LastCell(2) # <<>>
    /\ UsersWithStaff(last.before, LastCell(1)) = {}
    /\ LastCell(3) # <<>> /\ ~Malformed(LastCell(3))
    /\ \E u \in last.before.users : u.email = Text(NormalizeEmail(LastCell(3)))

\* C23: in the full-user import a row whose well-formed email is the email
\* of another record, one created by an earlier row of the batch included,
\* is not Failed: when no station or division insert is refused and the
\* dependents are finite, it is Created without email and with the
\* email-exists warning; and no two records ever share a non-null email.
C23_DuplicateEmailIsDropped ==
    /\ ~SharedEmail(db.users) /\ ~SharedEmail(ctx.tx.users)
    /\ (/\ DuplicateEmailRow
        /\ last.raised \subseteq {"user"}
        /\ LastRow[7].t = "str" => ToLower(Strip(LastRow[7].v)) \notin Infinities)
       => /\ last.status = "success"
          /\ LastUser.email = None
          /\ created[Len(created)].email = None
          /\ "email_exists" \in LastWarnings

(***************************************************************************)
(* Properties of the order of the checks on a row.                         *)
(***************************************************************************)
\* the Name cell of the row is missing or cleans to the empty text
NameCellBlank(row) == row[2] = NaN \/ UserCleanString(PyStr(row[2])) = <<>>

\* the outcome that the order of the checks prescribes for the last row
ChecksInOrder ==
    IF StaffCellBlank(LastRow)
    THEN last.status = "failed" /\ "Staff #" \in last.field_errors
    ELSE IF UsersWithStaff(last.before, LastCell(1)) # {}
    THEN /\ last.status = "skipped"
         /\ skipped_rows[Len(skipped_rows)].row = last.row_num
         /\ skipped_rows[Len(skipped_rows)].reason = "already exists"
    ELSE NameCellBlank(LastRow) =>
            last.status = "failed" /\ "Name" \in last.field_errors

\* C24: in the full-user import the checks of a row come in a fixed order:
\* a blank staff number gives Failed; otherwise a staff number that exists
\* already gives Skipped ('already exists') whatever the other cells hold,
\* a blank Name included; only otherwise a blank Name gives Failed.
C24_ChecksInFixedOrder ==
    (kind = "user" /\ last.status # "none") => ChecksInOrder

(***************************************************************************)
(* Properties of get-or-create for a name that exists.                     *)
(***************************************************************************)
\* the stations (divisions) there before the last row whose name is the name
\* in the cell of the row, letter case aside
MatchingStations == {e \in last.before.stations : ToLower(e.name) = ToLower(LastCell(4))}

MatchingDivisions == {e \in last.before.divisions : ToLower(e.name) = ToLower(LastCell(5))}

\* C25: get-or-create for a name that is, letter case aside, the name of an
\* existing station (division) returns that entity with created = false and
\* leaves the stations (divisions) as they were: none is created and none
\* has its code, name or directorate changed; a row that is then Created
\* is linked to that entity.
C25_ExistingNameIsReturned ==
    /\ (last.station_goc \notin {"none", "not_called"} /\ MatchingStations # {}) =>
          /\ last.station_goc = "found"
          /\ last.after.stations = last.before.stations
          /\ last.status = "success" =>
                \E e \in MatchingStations : LastUser.station = Text(e.code)
    /\ (last.division_goc \notin {"none", "not_called"} /\ MatchingDivisions # {}) =>
          /\ last.division_goc = "found"
          /\ last.after.divisions = last.before.divisions
          /\ last.status = "success" =>
                \E e \in MatchingDivisions : LastUser.division = Text(e.code)

(***************************************************************************)
(* Properties of the report against the store.                             *)
(***************************************************************************)
\* the importer has returned its report (the handler may still be at work)
Returned == pc \in {"returned", "invalidated"} \/ Finished

\* the store holds the records that a successful row of this kind writes
DurablyPresent(store, k, staff_id) ==
    IF k = "user"
    THEN UsersWithStaff(store, staff_id) # {} /\ staff_id \in store.metas
    ELSE /\ staff_id \in store.members
         /\ \E w \in store.wallets : w.member = staff_id
         /\ staff_id \in store.savings

\* C26: once the import has returned, every row that the report lists as
\* successful has its records in the store (User and UserAccountMeta in the
\* full-user import; Member, Wallet and SavingsAccount in the member
\* import), also when another row of the batch hit a persistence error.
C26_ReportAgreesWithStore ==
    Returned =>
        \A i \in DOMAIN created : DurablyPresent(db, kind, created[i].staff_id)

(***************************************************************************)
(* Properties of rows that stop at a check.                                *)
(***************************************************************************)
\* the last row ended Skipped, or Failed on a required field
StoppedAtCheck ==
    \/ last.status = "skipped"
    \/ last.status = "failed" /\ last.field_errors \cap {"Staff #", "Name"} # {}

\* the last row names a station or a division that is not there
NamesNewEntity ==
    \/ LastCell(4) # <<>> /\ MatchingStations = {}
    \/ LastCell(5) # <<>> /\ MatchingDivisions = {}

\* C27: a row that ends Skipped, or Failed on a required field (blank
\* Staff #, blank Name), writes nothing: users, account metadata, members,
\* wallets, savings accounts, stations and divisions are the same before and
\* after the row, in the transaction and in the store, also when the row
\* names a station or division that does not exist yet.
C27_StoppedRowWritesNothing ==
    /\ [](StoppedAtCheck => last.after = last.before)
    /\ [][(pc = "rows" /\ pc' = "rows"
           /\ (\/ last'.status = "skipped"
               \/ last'.status = "failed"
                  /\ last'.field_errors \cap {"Staff #", "Name"} # {}))
          => ctx'.tx = ctx.tx /\ db' = db]_vars

\* after a row that failed on its blank staff number, a row is skipped that
\* names a station which is not there: the transaction holds what the store
\* held when the import began
C27_Witness ==
    /\ pc = "rows"
    /\ Len(failed_rows) = 1 /\ "Staff #" \in failed_rows[1].field_errors
    /\ last.status = "skipped" /\ last.row_num = 3
    /\ NamesNewEntity
    /\ ctx.tx = start_db
    /\ start_db.users # {}

(***************************************************************************)
(* Properties of two imports with the same new staff number.               *)
(***************************************************************************)
BothImportsDone == \A p \in Procs : procs[p].pc = "done" /\ procs[p].row # "none"

\* C28: when two full-user imports whose files hold the same new staff
\* number have run at the same time, in whatever interleaving, the store
\* holds at most one record with that staff number and at most one of the
\* imports reports the row as Created; the other reports it Skipped or
\* Failed.
C28_OneCreatedPerStaffNumber ==
    BothImportsDone =>
        /\ Cardinality(UsersWithStaff(db, SharedStaff)) <= 1
        /\ \A p, q \in Procs :
              (p # q /\ procs[p].row = "created") => procs[q].row \in {"skipped", "failed"}

(***************************************************************************)
(* Properties of the answer of the handler.                                *)
(***************************************************************************)
\* the handler has answered the request
Answered == pc = "idle" /\ response.status # 0

\* C29: whenever the handler answers with an error (400 or 500) the import
\* has left the store as it was before the request; and whenever the import
\* has committed records, the handler answers with success and the audit
\* entry of the request is a SUCCESS entry, not an IMPORT_ERROR answer with
\* a FAILED entry.
C29_ErrorAnswerMeansNothingCommitted ==
    Answered =>
        /\ response.status \in {400, 500} => db = start_db
        /\ db # start_db =>
              /\ response.status = 201
              /\ response.code # "IMPORT_ERROR"
              /\ audit # <<>>
              /\ audit[Len(audit)].status = "SUCCESS"

(***************************************************************************)
(* Termination and order of the code probe.                                *)
(***************************************************************************)
\* the candidates of the probe: base, base01, base02, ...
Candidate(base, k) == IF k = 0 THEN base ELSE base \o Format02d(k)

\* candidate k is free and every candidate before it is taken
FirstFreeAt(base, used, k) ==
    /\ Candidate(base, k) \notin used
    /\ \A j \in 0..(k - 1) : Candidate(base, j) \in used

\* every new entity carries the first free candidate of its name, found
\* after at most one test per code of the store and one more
ProbedInOrder(new, used, default) ==
    \A e \in new : \E k \in 0..Cardinality(used) :
        /\ e.code = Candidate(BaseCode(e.name, default), k)
        /\ FirstFreeAt(BaseCode(e.name, default), used, k)

\* C30: the code probe of station and division get-or-create ends, for every
\* finite store, after at most one test per code of the store and one more,
\* with the first free one of the candidates base, base01, base02, ... taken
\* in this order; and an import over a finite file always ends: the row loop
\* is left, by the return of the report or by an exception.
C30_ProbeAndImportTerminate ==
    /\ [](/\ ProbedInOrder(NewStations, StationCodes(last.before), DefaultStationCode)
          /\ ProbedInOrder(NewDivisions, DivisionCodes(last.before), DefaultDivisionCode))
    /\ (pc = "rows" ~> pc # "rows")

\* a row has inserted a station after the probe has passed base and base01
C30_Witness ==
    /\ pc = "returned"
    /\ \E e \in NewStations :
          /\ Len(e.code) = 5
          /\ e.code[5] = "2"
          /\ Candidate(BaseCode(e.name, DefaultStationCode), 1) \in StationCodes(last.before)

====
